---------------------------- MODULE Spec2Model ----------------------------
(***************************************************************************)
(* A model of the ZX16 two-pass assembler core:                            *)
(*   first_pass_parser.py   (ZX16FirstPassParser)                          *)
(*   second_pass_encoder.py (ZX16SecondPassEncoder)                        *)
(*   constants.py           (INSTRUCTION_FORMAT, PSEUDO_INSTRUCTIONS, ...) *)
(*   definitions.py         (ImmediateField bounds)                        *)
(*                                                                         *)
(* A token is a record [type, value, base, num, was_label].  The text of a *)
(* numeric literal (Immediate / Character token) is modelled by its radix  *)
(* prefix `base` ("dec", "hex") and the number `num` it denotes; every     *)
(* other token carries its text in `value`.                                *)
(***************************************************************************)
EXTENDS Integers, Sequences, FiniteSets, TLC

VARIABLES
    source,            \* the token stream as handed to the first pass
    tokens,            \* self.tokens (one list object shared by both passes)
    pos,               \* ZX16FirstPassParser.pos (0-based)
    current_token,     \* ZX16FirstPassParser.current_token
    symbol_table,      \* name -> Symbol
    current_section,   \* first pass current section
    section_pointers,  \* first pass per-section relative pointers
    memory_layout,     \* section -> base address
    errors,            \* Zx16Errors.errors
    pc,                \* position of the program
    p2_section,        \* ZX16SecondPassEncoder.current_section
    p2_pointers,       \* ZX16SecondPassEncoder.section_pointers
    lines,             \* ZX16SecondPassEncoder.lines
    idx,               \* index of the line ZX16SecondPassEncoder.execute is at (0-based)
    memory,            \* ZX16SecondPassEncoder.memory (address -> byte; absent = 0)
    enc,               \* the last result of encode_instruction
    rt,                \* operands and result of the two's-complement round trip
    write_args         \* arguments of the write_memory call under study

vars == << source, tokens, pos, current_token, symbol_table, current_section,
           section_pointers, memory_layout, errors, pc, p2_section,
           p2_pointers, lines, idx, memory, enc, rt, write_args >>

-----------------------------------------------------------------------------
(* Bounds of the model *)

MaxLines == 3

-----------------------------------------------------------------------------
(* constants.py: DEFAULT_SYMBOLS *)

INT_VECTORS == 0
CODE_START == 32
MMIO_BASE == 61440
STACK_TOP == 61438
MEM_SIZE == 65536

Sections == {".inter", ".text", ".data", ".bss"}

-----------------------------------------------------------------------------
(* Tokens *)

Token(type, value, base, num) ==
    [type |-> type, value |-> value, base |-> base, num |-> num,
     was_label |-> FALSE]

EOFToken == Token("EOF", "", "", 0)
Newline == Token("NEWLINE", "\n", "", 0)
Comma == Token("COMMA", ",", "", 0)
LParen == Token("LPAREN", "(", "", 0)
RParen == Token("RPAREN", ")", "", 0)
Directive(v) == Token("DIRECTIVE", v, "", 0)
Identifier(v) == Token("IDENTIFIER", v, "", 0)
Label(v) == Token("LABEL", v, "", 0)
Register(v) == Token("REGISTER", v, "", 0)
String(v) == Token("STRING", v, "", 0)
Immediate(n) == Token("IMMEDIATE", "", "dec", n)
HexImmediate(n) == Token("IMMEDIATE", "", "hex", n)
Character(n) == Token("CHARACTER", "", "dec", n)

\* str(n): the decimal text of n
Str(n) == [base |-> "dec", num |-> n]

\* int(text, 0): base auto-detection accepts every radix prefix
IntAuto(tok) == tok.num

\* int(text): base 10 only; a prefixed literal raises ValueError
IntDecRaises(tok) == tok.base # "dec"

\* str.lower() over the texts of the model
Lower(s) ==
    CASE s = "ADD" -> "add"
      [] s = ".DATA" -> ".data"
      [] s = "START" -> "start"
      [] OTHER -> s

-----------------------------------------------------------------------------
(* constants.py: the instruction table *)

Placeholder(expected_token, const_value, allocations, beginning, end) ==
    [expected_token |-> expected_token, const_value |-> const_value,
     allocations |-> allocations, beginning |-> beginning, end |-> end]

MemoryAllocation(mb, me, ib, ie) ==
    [m_beginning |-> mb, m_end |-> me, i_beginning |-> ib, i_end |-> ie]

\* Placeholder(const_value="...", beginning=b, end=e); the bit string is a
\* sequence of bits, most significant first
ConstP(bits, b, e) == Placeholder("None", bits, << >>, b, e)
\* Placeholder(expected_token=REGISTER, beginning=b, end=e)
RegP(b, e) == Placeholder("REGISTER", << >>, << >>, b, e)
\* Placeholder(expected_token=IMMEDIATE, beginning=b, end=e)
ImmP(b, e) == Placeholder("IMMEDIATE", << >>, << >>, b, e)
\* Placeholder(expected_token=IMMEDIATE, allocations=[...])
SplitP(allocs) == Placeholder("IMMEDIATE", << >>, allocs, 0, 0)
\* Placeholder(expected_token=COMMA | LPAREN | RPAREN)
PunctP(tok) == Placeholder(tok, << >>, << >>, 0, 0)

\* rd, rs2 register form of the R-type rows
RType(funct3, funct4) ==
    << ConstP(<<0,0,0>>, 0, 2), ConstP(funct3, 3, 5), RegP(6, 8),
       PunctP("COMMA"), RegP(9, 11), ConstP(funct4, 12, 15) >>

\* rd, imm7 form of the I-type rows
IType(funct3) ==
    << ConstP(<<0,0,1>>, 0, 2), ConstP(funct3, 3, 5), RegP(6, 8),
       PunctP("COMMA"), ImmP(9, 15) >>

\* rd, shamt form of the shift rows
ShiftType(funct3, sub) ==
    << ConstP(<<0,0,1>>, 0, 2), ConstP(funct3, 3, 5), RegP(6, 8),
       PunctP("COMMA"), ImmP(9, 12), ConstP(sub, 13, 15) >>

\* rs1, rs2, offset form of the B-type rows
BType(funct3) ==
    << ConstP(<<0,1,0>>, 0, 2), ConstP(funct3, 3, 5), RegP(6, 8),
       PunctP("COMMA"), RegP(9, 11), PunctP("COMMA"), ImmP(12, 15) >>

\* rs1, offset form of bz / bnz
BZType(funct3) ==
    << ConstP(<<0,1,0>>, 0, 2), ConstP(funct3, 3, 5), RegP(6, 8),
       PunctP("COMMA"), ImmP(12, 15) >>

\* reg, offset(reg) form of the S-type and L-type rows
MemType(opcode, funct3) ==
    << ConstP(opcode, 0, 2), ConstP(funct3, 3, 5), RegP(6, 8),
       PunctP("COMMA"), ImmP(12, 15), PunctP("LPAREN"), RegP(9, 11),
       PunctP("RPAREN") >>

\* lui / auipc with the flag bit left 0 for both
UType_same_flag(flag) ==
    << ConstP(<<1,1,0>>, 0, 2), RegP(6, 8), PunctP("COMMA"),
       SplitP(<< MemoryAllocation(3, 5, 7, 9),
                 MemoryAllocation(9, 14, 10, 15) >>),
       ConstP(<<0>>, 15, 15) >>

\* rd, imm form of lui / auipc
UType(flag) ==
    << ConstP(<<1,1,0>>, 0, 2), RegP(6, 8), PunctP("COMMA"),
       SplitP(<< MemoryAllocation(3, 5, 7, 9),
                 MemoryAllocation(9, 14, 10, 15) >>),
       ConstP(flag, 15, 15) >>

INSTRUCTION_FORMAT ==
    [ add   |-> RType(<<0,0,0>>, <<0,0,0,0>>),
      sub   |-> RType(<<0,0,0>>, <<0,0,0,1>>),
      slt   |-> RType(<<0,0,1>>, <<0,0,1,0>>),
      sltu  |-> RType(<<0,1,0>>, <<0,0,1,1>>),
      sll   |-> RType(<<0,1,1>>, <<0,1,0,0>>),
      srl   |-> RType(<<0,1,1>>, <<0,1,0,1>>),
      sra   |-> RType(<<0,1,1>>, <<0,1,1,0>>),
      or    |-> RType(<<1,0,0>>, <<0,1,1,1>>),
      and   |-> RType(<<1,0,1>>, <<1,0,0,0>>),
      xor   |-> RType(<<1,1,0>>, <<1,0,0,1>>),
      mv    |-> RType(<<1,1,1>>, <<1,0,1,0>>),
      jr    |-> << ConstP(<<0,0,0>>, 0, 2), ConstP(<<0,0,0>>, 3, 5),
                   RegP(6, 8), ConstP(<<0,0,0>>, 9, 11),
                   ConstP(<<1,0,1,1>>, 12, 15) >>,
      jalr  |-> RType(<<0,0,0>>, <<1,1,0,0>>),
      addi  |-> IType(<<0,0,0>>),
      slti  |-> IType(<<0,0,1>>),
      sltui |-> IType(<<0,1,0>>),
      slli  |-> ShiftType(<<0,1,1>>, <<0,0,1>>),
      srli  |-> ShiftType(<<0,1,1>>, <<0,1,0>>),
      srai  |-> ShiftType(<<0,1,1>>, <<1,0,0>>),
      ori   |-> IType(<<1,0,0>>),
      andi  |-> IType(<<1,0,1>>),
      xori  |-> IType(<<1,1,0>>),
      li    |-> IType(<<1,1,1>>),
      beq   |-> BType(<<0,0,0>>),
      bne   |-> BType(<<0,0,1>>),
      bz    |-> BZType(<<0,1,0>>),
      bnz   |-> BZType(<<0,1,1>>),
      blt   |-> BType(<<1,0,0>>),
      bge   |-> BType(<<1,0,1>>),
      bltu  |-> BType(<<1,1,0>>),
      bgeu  |-> BType(<<1,1,1>>),
      sb    |-> MemType(<<0,1,1>>, <<0,0,0>>),
      sw    |-> MemType(<<0,1,1>>, <<0,0,1>>),
      lb    |-> MemType(<<1,0,0>>, <<0,0,0>>),
      lw    |-> MemType(<<1,0,0>>, <<0,0,1>>),
      lbu   |-> MemType(<<1,0,0>>, <<1,0,0>>),
      j     |-> << ConstP(<<1,0,1>>, 0, 2),
                   SplitP(<< MemoryAllocation(3, 5, 1, 3),
                             MemoryAllocation(9, 14, 4, 9) >>),
                   ConstP(<<0>>, 15, 15) >>,
      jal   |-> << ConstP(<<1,0,1>>, 0, 2), RegP(3, 5), PunctP("COMMA"),
                   SplitP(<< MemoryAllocation(3, 5, 0, 2),
                             MemoryAllocation(9, 14, 3, 8) >>),
                   ConstP(<<1>>, 15, 15) >>,
      lui   |-> UType(<<0>>),
      auipc |-> UType(<<1>>),
      ecall |-> << ConstP(<<1,1,1>>, 0, 2), ImmP(6, 15) >> ]

Mnemonics == DOMAIN INSTRUCTION_FORMAT

\* Pseudo-instruction sizes in bytes
PSEUDO_INSTRUCTIONS ==
    [ li16 |-> 4, la |-> 4, push |-> 4, pop |-> 4, call |-> 2, ret |-> 2,
      inc |-> 2, dec |-> 2, neg |-> 4, not |-> 2, clr |-> 2, nop |-> 2 ]

Pseudos == DOMAIN PSEUDO_INSTRUCTIONS

-----------------------------------------------------------------------------
(* error_handler.py *)

\* Zx16Errors.add_error: one diagnostic, its message kind and its argument
add_error(errs, msg, arg) == Append(errs, [msg |-> msg, arg |-> arg])

has_errors(errs) == Len(errs) > 0

-----------------------------------------------------------------------------
(* first_pass_parser.py: ZX16FirstPassParser *)

\* The mutable fields of the parser, threaded through its methods.  `raised`
\* records an exception that left the method (ValueError of int()).
ParserState ==
    [tokens |-> tokens, pos |-> pos, current_token |-> current_token,
     symbol_table |-> symbol_table, errors |-> errors,
     current_section |-> current_section,
     section_pointers |-> section_pointers, raised |-> FALSE]

Symbol(name, value, section) ==
    [name |-> name, value |-> value, section |-> section, defined |-> TRUE,
     global_symbol |-> FALSE]

\* list.pop(i) for a 0-based index i
Pop(seq, i) == SubSeq(seq, 1, i) \o SubSeq(seq, i + 2, Len(seq))

error(s, msg, arg) == [s EXCEPT !.errors = add_error(@, msg, arg)]

define_symbol_overwrite(s, name, value, section) ==
    [s EXCEPT !.symbol_table = (name :> Symbol(name, value, section)) @@ @]

define_symbol(s, name, value, section) ==
    IF name \in DOMAIN s.symbol_table /\ s.symbol_table[name].defined
    THEN error(s, "Symbol already defined", name)
    ELSE [s EXCEPT !.symbol_table = (name :> Symbol(name, value, section)) @@ @]

advance(s) ==
    IF s.pos < Len(s.tokens) - 1
    THEN [s EXCEPT !.pos = s.pos + 1, !.current_token = s.tokens[s.pos + 2]]
    ELSE s

advance_and_delete(s) ==
    IF s.pos < Len(s.tokens) - 1
    THEN LET t == Pop(s.tokens, s.pos)
         IN [s EXCEPT !.tokens = t,
                      !.current_token = IF t # << >> THEN t[s.pos + 1]
                                        ELSE EOFToken]
    ELSE [s EXCEPT !.current_token = EOFToken]

peek(s, offset) ==
    IF s.pos + offset < Len(s.tokens) THEN s.tokens[s.pos + offset + 1]
    ELSE EOFToken

reset(s) ==
    [s EXCEPT !.pos = 0,
              !.current_token = IF s.tokens # << >> THEN s.tokens[1]
                                ELSE EOFToken]

pointer_advance(s, size) ==
    [s EXCEPT !.section_pointers[s.current_section] = @ + size]

current_address(s) == s.section_pointers[s.current_section]

parse_constant(s) ==
    IF peek(s, 1).type # "IDENTIFIER"
    THEN error(s, "Expected identifier after directive", "")
    ELSE
      LET s1 == advance_and_delete(s)
          identifier == s1.current_token.value
      IN IF peek(s1, 1).type # "COMMA"
         THEN error(s1, "Expected comma after identifier", "")
         ELSE
           LET s2 == advance_and_delete(s1)
           IN IF peek(s2, 1).type \notin {"IMMEDIATE", "CHARACTER"}
              THEN error(s2, "Expected immediate or character value after comma", "")
              ELSE
                LET s3 == advance_and_delete(s2)
                    value == IntAuto(s3.current_token)
                    s4 == define_symbol(s3, identifier, value, "const")
                IN advance_and_delete(s4)

parse_label(s) ==
    advance_and_delete(
        define_symbol(s, s.current_token.value, current_address(s),
                      s.current_section))

\* the `while self.peek().type in [IMMEDIATE, CHARACTER]` loop of .byte and
\* .word; `returned` tells that the loop left parse_directive by `return`
RECURSIVE data_values(_, _, _, _)
data_values(s, directive, size, max) ==
    IF peek(s, 1).type \in {"IMMEDIATE", "CHARACTER"}
    THEN LET s1 == advance(s)
             value == IntAuto(s1.current_token)
         IN IF value < 0 \/ value > max
            THEN [s |-> error(s1, "Value out of range for directive", directive),
                  returned |-> TRUE]
            ELSE LET s2 == pointer_advance(s1, size)
                 IN IF peek(s2, 1).type = "COMMA"
                    THEN data_values(advance(s2), directive, size, max)
                    ELSE [s |-> s2, returned |-> FALSE]
    ELSE [s |-> s, returned |-> FALSE]

parse_data_values_wide(s, directive, size, max) ==
    IF peek(s, 1).type \notin {"IMMEDIATE", "CHARACTER"}
    THEN error(s, "Expected immediate or character value after directive", directive)
    ELSE LET r == data_values(s, directive, size, max * 256)
         IN IF r.returned THEN r.s
            ELSE advance(IF r.s.current_token.type = "COMMA"
                         THEN advance(error(r.s, "Unexpected token after directive",
                                            peek(r.s, 1).value))
                         ELSE r.s)

\* .byte (size 1, max 255) and .word (size 2, max 65535)
parse_data_values(s, directive, size, max) ==
    IF peek(s, 1).type \notin {"IMMEDIATE", "CHARACTER"}
    THEN error(s, "Expected immediate or character value after directive", directive)
    ELSE LET r == data_values(s, directive, size, max)
         IN IF r.returned THEN r.s
            ELSE advance(IF r.s.current_token.type = "COMMA"
                         THEN advance(error(r.s, "Unexpected token after directive",
                                            peek(r.s, 1).value))
                         ELSE r.s)

parse_org_unaligned(s) ==
    IF s.current_section \notin {".text", ".inter"}
    THEN error(s, ".org directive can only be used in the .text section", "")
    ELSE IF peek(s, 1).type # "IMMEDIATE"
    THEN error(s, "Expected immediate value after .org directive", "")
    ELSE
      LET s1 == advance(s)
          value == IntAuto(s1.current_token)
      IN IF value < 0 \/ value >= STACK_TOP
         THEN error(s1, "Value out of range for .org directive", "")
         ELSE advance(
                IF value < CODE_START
                THEN [s1 EXCEPT !.current_section = ".inter",
                                !.section_pointers[".inter"] = value]
                ELSE [s1 EXCEPT !.current_section = ".text",
                                !.section_pointers[".text"] = value - CODE_START])

parse_org(s) ==
    IF s.current_section \notin {".text", ".inter"}
    THEN error(s, ".org directive can only be used in the .text section", "")
    ELSE IF peek(s, 1).type # "IMMEDIATE"
    THEN error(s, "Expected immediate value after .org directive", "")
    ELSE
      LET s1 == advance(s)
          value == IntAuto(s1.current_token)
      IN IF value % 2 # 0
         THEN error(s1, "Value is not aligned for .org directive", "")
         ELSE IF value < 0 \/ value >= STACK_TOP
         THEN error(s1, "Value out of range for .org directive", "")
         ELSE advance(
                IF value < CODE_START
                THEN [s1 EXCEPT !.current_section = ".inter",
                                !.section_pointers[".inter"] = value]
                ELSE [s1 EXCEPT !.current_section = ".text",
                                !.section_pointers[".text"] = value - CODE_START])

parse_string_no_terminator(s, directive) ==
    IF peek(s, 1).type = "STRING"
    THEN LET s1 == advance(s)
         IN advance(pointer_advance(s1, Len(s1.current_token.value)))
    ELSE error(s, "Expected string after directive", directive)

parse_string(s, directive) ==
    IF peek(s, 1).type = "STRING"
    THEN LET s1 == advance(s)
             string_len == Len(s1.current_token.value)
                           + (IF directive = ".string" THEN 1 ELSE 0)
         IN advance(pointer_advance(s1, string_len))
    ELSE error(s, "Expected string after directive", directive)

parse_space(s) ==
    IF peek(s, 1).type # "IMMEDIATE"
    THEN error(s, "Expected size after .space directive", "")
    ELSE LET s1 == advance(s)
         IN IF IntDecRaises(s1.current_token)
            THEN [s1 EXCEPT !.raised = TRUE]
            ELSE advance(pointer_advance(s1, s1.current_token.num))

parse_fill(s) ==
    IF peek(s, 1).type # "IMMEDIATE"
    THEN error(s, "Expected size after .fill directive", "")
    ELSE
      LET s1 == advance(s)
          fill_items == s1.current_token.num
      IN IF IntDecRaises(s1.current_token) THEN [s1 EXCEPT !.raised = TRUE]
         ELSE IF fill_items < 0
         THEN error(s1, "items for .fill directive one at least", "")
         ELSE IF peek(s1, 1).type # "COMMA"
         THEN error(s1, "Expected comma after size in .fill directive", "")
         ELSE
           LET s2 == advance(s1)
           IN IF peek(s2, 1).type # "IMMEDIATE"
              THEN error(s2, "Expected fill value after comma in .fill directive", "")
              ELSE
                LET s3 == advance(s2)
                    fill_size == IntAuto(s3.current_token)
                IN IF fill_size \notin {1, 2}
                   THEN error(s3, "Fill size must be 1 or 2 bytes", "")
                   ELSE IF fill_items * fill_size > 65536
                   THEN error(s3, "Total size for .fill directive exceeds 65536 bytes", "")
                   ELSE IF peek(s3, 1).type # "COMMA"
                   THEN error(s3, "Expected comma after fill value in .fill directive", "")
                   ELSE
                     LET s4 == advance(s3)
                     IN IF peek(s4, 1).type # "IMMEDIATE"
                        THEN error(s4, "Expected fill value after comma in .fill directive", "")
                        ELSE LET s5 == advance(s4)
                             IN advance(pointer_advance(s5, fill_size * fill_items))

parse_directive(s) ==
    LET directive == Lower(s.current_token.value)
    IN IF directive \in {".text", ".data", ".bss"}
       THEN advance([s EXCEPT !.current_section = directive])
       ELSE IF directive = ".org" THEN parse_org(s)
       ELSE IF directive \in {".byte", ".word", ".string", ".ascii", ".space", ".fill"}
       THEN IF s.current_section \notin {".data", ".bss"}
            THEN error(s, "directive can only be used in the .data or .bss sections",
                       directive)
            ELSE IF directive = ".byte" THEN parse_data_values(s, directive, 1, 255)
            ELSE IF directive = ".word" THEN parse_data_values(s, directive, 2, 65535)
            ELSE IF directive \in {".string", ".ascii"} THEN parse_string(s, directive)
            ELSE IF directive = ".space" THEN parse_space(s)
            ELSE parse_fill(s)
       ELSE advance(error(s, "Unknown directive", directive))

calculate_memory_layout_no_base(layout, pointers) ==
    [layout EXCEPT ![".data"] = pointers[".text"],
                   ![".bss"] = pointers[".text"] + pointers[".data"]]

calculate_memory_layout(layout, pointers) ==
    [layout EXCEPT ![".data"] = pointers[".text"] + CODE_START,
                   ![".bss"] = (pointers[".text"] + CODE_START) + pointers[".data"]]

\* execute, first loop body: one token of the constants sweep
constants_step(s) ==
    advance(IF s.current_token.type = "DIRECTIVE"
               /\ s.current_token.value \in {".equ", ".set"}
            THEN parse_constant(s)
            ELSE s)

\* execute, lines 361-364: skip to the end of the line, turning Character
\* tokens into Immediate tokens in place
RECURSIVE skip_line(_)
skip_line(s) ==
    IF s.current_token.type \in {"NEWLINE", "EOF"} THEN s
    ELSE skip_line(advance(
           IF s.current_token.type = "CHARACTER"
           THEN [s EXCEPT !.current_token.type = "IMMEDIATE",
                          !.tokens[s.pos + 1].type = "IMMEDIATE"]
           ELSE s))

\* execute, lines 353-358: the size of an instruction or pseudo-instruction
size_instruction(s) ==
    LET potential == Lower(s.current_token.value)
    IN IF potential \in Mnemonics THEN pointer_advance(s, 2)
       ELSE IF potential \in Pseudos
       THEN pointer_advance(s, PSEUDO_INSTRUCTIONS[potential])
       ELSE s

\* execute, second loop body: one item of the layout sweep
layout_step(s) ==
    LET t == s.current_token
        s1 == IF t.type = "LABEL" THEN parse_label(s)
              ELSE IF t.type = "IDENTIFIER" THEN skip_line(size_instruction(s))
              ELSE IF t.type = "DIRECTIVE" THEN parse_directive(s)
              ELSE s
    IN IF s1.raised THEN s1
       ELSE advance(IF s1.current_token.type \notin {"NEWLINE", "EOF"}
                    THEN error(s1, "Unexpected token", s1.current_token.value)
                    ELSE s1)

-----------------------------------------------------------------------------
(* second_pass_encoder.py: construction and symbol resolution *)

\* ZX16SecondPassEncoder.__init__: the write cursors start at the layout
initial_pointers(layout) == [sec \in Sections |-> layout[sec]]

resolve_token_no_base(token, symtab, pointers) ==
    IF token.value \in DOMAIN symtab
    THEN [token EXCEPT !.type = "IMMEDIATE", !.value = "",
                       !.base = "dec", !.num = symtab[token.value].value,
                       !.was_label = symtab[token.value].section # "const"]
    ELSE [token EXCEPT !.type = "IMMEDIATE", !.value = "",
                       !.base = "dec", !.num = 0]

resolve_token_flags_constants(token, symtab, pointers) ==
    IF token.value \in DOMAIN symtab
    THEN LET symbol == symtab[token.value]
         IN IF symbol.section = "const"
            THEN [token EXCEPT !.type = "IMMEDIATE", !.value = "",
                               !.was_label = TRUE,
                               !.base = Str(symbol.value).base,
                               !.num = Str(symbol.value).num]
            ELSE [token EXCEPT !.type = "IMMEDIATE", !.value = "",
                               !.was_label = TRUE,
                               !.base = Str(symbol.value + pointers[symbol.section]).base,
                               !.num = Str(symbol.value + pointers[symbol.section]).num]
    ELSE [token EXCEPT !.type = "IMMEDIATE", !.value = "",
                       !.base = Str(0).base, !.num = Str(0).num]

\* resolve_symbols, lines 67-83: the rewrite of one symbol reference
resolve_token(token, symtab, pointers) ==
    IF token.value \in DOMAIN symtab
    THEN LET symbol == symtab[token.value]
         IN IF symbol.section = "const"
            THEN [token EXCEPT !.type = "IMMEDIATE", !.value = "",
                               !.base = Str(symbol.value).base,
                               !.num = Str(symbol.value).num]
            ELSE [token EXCEPT !.type = "IMMEDIATE", !.value = "",
                               !.was_label = TRUE,
                               !.base = Str(symbol.value + pointers[symbol.section]).base,
                               !.num = Str(symbol.value + pointers[symbol.section]).num]
    ELSE [token EXCEPT !.type = "IMMEDIATE", !.value = "",
                       !.base = Str(0).base, !.num = Str(0).num]

\* resolve_symbols, lines 57-65: the tokens the loop rewrites
is_symbol_reference(token) ==
    /\ token.type = "IDENTIFIER"
    /\ Lower(token.value) \notin Mnemonics
    /\ Lower(token.value) \notin Pseudos

RECURSIVE resolve_from(_, _, _, _, _)
resolve_from(i, toks, errs, symtab, pointers) ==
    IF i > Len(toks) THEN [tokens |-> toks, errors |-> errs]
    ELSE IF ~is_symbol_reference(toks[i])
    THEN resolve_from(i + 1, toks, errs, symtab, pointers)
    ELSE resolve_from(
           i + 1,
           [toks EXCEPT ![i] = resolve_token(toks[i], symtab, pointers)],
           IF toks[i].value \in DOMAIN symtab THEN errs
           ELSE add_error(errs, "Undefined symbol", toks[i].value),
           symtab, pointers)

resolve_symbols(toks, errs, symtab, pointers) ==
    resolve_from(1, toks, errs, symtab, pointers)

-----------------------------------------------------------------------------
(* Integer and bit arithmetic of the encoder *)

RECURSIVE Pow2(_)
Pow2(n) == IF n = 0 THEN 1 ELSE 2 * Pow2(n - 1)

\* x << n
ShiftLeft(x, n) == x * Pow2(n)

\* (imm & (((1 << width) - 1) << lo)) >> lo, on Python's unbounded
\* two's-complement integers
BitSlice(imm, lo, width) == (imm \div Pow2(lo)) % Pow2(width)

\* a | b for non-negative a and b
RECURSIVE BitOr(_, _)
BitOr(a, b) ==
    IF a = 0 THEN b
    ELSE IF b = 0 THEN a
    ELSE (IF a % 2 = 1 \/ b % 2 = 1 THEN 1 ELSE 0)
         + 2 * BitOr(a \div 2, b \div 2)

\* int(bits, 2) of a bit string, most significant bit first
RECURSIVE BinToInt(_)
BinToInt(bits) ==
    IF bits = << >> THEN 0
    ELSE 2 * BinToInt(SubSeq(bits, 1, Len(bits) - 1)) + bits[Len(bits)]

\* int(x / 2): true division, then truncation towards zero
TruncDiv2(x) == IF x >= 0 THEN x \div 2 ELSE -((-x) \div 2)

-----------------------------------------------------------------------------
(* utils: two's-complement conversion *)

\* decimal_to_binary(value, width): the `width`-bit two's-complement bit
\* string of value, most significant bit first
RECURSIVE decimal_to_binary(_, _)
decimal_to_binary(value, width) ==
    IF width = 0 THEN << >>
    ELSE Append(decimal_to_binary(value \div 2, width - 1), value % 2)

\* binary_to_decimal(bits, signed): the number a bit string denotes
binary_to_decimal(bits, signed) ==
    IF signed /\ bits # << >> /\ bits[1] = 1
    THEN BinToInt(bits) - Pow2(Len(bits))
    ELSE BinToInt(bits)

-----------------------------------------------------------------------------
(* definitions.py: the field classes and ImmediateField.__init__ *)

IsConstantField(field) == field.const_value # << >>

IsPunctuationField(field) ==
    field.expected_token \in {"COMMA", "LPAREN", "RPAREN"}

IsImmediateField(field) == field.expected_token = "IMMEDIATE"

\* lui and auipc immediates are unsigned, all others signed
field_signed(mnemonic) == mnemonic \notin {"lui", "auipc"}

RECURSIVE allocation_width(_)
allocation_width(allocations) ==
    IF allocations = << >> THEN 0
    ELSE (Head(allocations).i_end - Head(allocations).i_beginning + 1)
         + allocation_width(Tail(allocations))

field_width(field) ==
    IF field.allocations # << >> THEN allocation_width(field.allocations)
    ELSE field.end - field.beginning + 1

min_value(field, signed) ==
    IF signed THEN -Pow2(field_width(field) - 1) ELSE 0

max_value(field, signed) ==
    IF signed THEN Pow2(field_width(field) - 1) - 1
    ELSE Pow2(field_width(field)) - 1

-----------------------------------------------------------------------------
(* second_pass_encoder.py: encode_instruction and write_memory *)

\* the mnemonics whose label operands are made PC-relative (lines 432-445)
RelativeMnemonics ==
    {"jal", "j", "jr", "jalr", "beq", "bne", "bz", "bnz", "blt", "bge",
     "bltu", "bgeu"}

\* int(token.value[1]) of a register token
RegisterDigit ==
    [x0 |-> 0, x1 |-> 1, x2 |-> 2, x3 |-> 3, x4 |-> 4, x5 |-> 5, x6 |-> 6,
     x7 |-> 7, x8 |-> 8, x9 |-> 9]

\* lines 421-424: width normalisation of the token's value
normalize_immediate_unsigned(value, width, signed) ==
    binary_to_decimal(decimal_to_binary(value, width), FALSE)

normalize_immediate(value, width, signed) ==
    binary_to_decimal(decimal_to_binary(value, width), signed)

\* lines 466-475: the pieces of imm and the word bit each is shifted to
RECURSIVE allocation_pieces(_, _)
allocation_pieces(allocations, imm) ==
    IF allocations = << >> THEN << >>
    ELSE LET alloc == Head(allocations)
         IN << [piece |-> BitSlice(imm, alloc.i_beginning,
                                   alloc.i_end - alloc.i_beginning + 1),
                shift |-> alloc.m_beginning] >>
            \o allocation_pieces(Tail(allocations), imm)

immediate_pieces_at_end(field, imm) ==
    IF field.allocations # << >> THEN allocation_pieces(field.allocations, imm)
    ELSE << [piece |-> BitSlice(imm, 0, field.end - field.beginning + 1),
             shift |-> field.end] >>

immediate_pieces(field, imm) ==
    IF field.allocations # << >> THEN allocation_pieces(field.allocations, imm)
    ELSE << [piece |-> BitSlice(imm, 0, field.end - field.beginning + 1),
             shift |-> field.beginning] >>

RECURSIVE or_pieces(_, _)
or_pieces(word, pieces) ==
    IF pieces = << >> THEN word
    ELSE or_pieces(BitOr(word, ShiftLeft(Head(pieces).piece, Head(pieces).shift)),
                   Tail(pieces))

\* lines 350-353: the constant fields laid down first
RECURSIVE constant_pieces(_)
constant_pieces(specs) ==
    IF specs = << >> THEN << >>
    ELSE (IF IsConstantField(Head(specs))
          THEN << [piece |-> BinToInt(Head(specs).const_value),
                   shift |-> Head(specs).beginning] >>
          ELSE << >>)
         \o constant_pieces(Tail(specs))

\* the result of encode_instruction before its write: the error it reported
\* ("" for none), the word, the operand pieces ORed into it and the
\* immediates that reached the range check
Encoding(err, word, placed, imms) ==
    [status |-> "done", error |-> err, word |-> word, placed |-> placed,
     imms |-> imms]

failed(acc, msg) == [acc EXCEPT !.error = msg]

\* lines 357-486: the walk over the non-constant fields
RECURSIVE encode_fields(_, _, _, _, _, _)
encode_fields(mnemonic, line, pointer, k, token_idx, acc) ==
    LET specs == INSTRUCTION_FORMAT[mnemonic]
    IN
    IF k > Len(specs) THEN acc
    ELSE
      LET field == specs[k]
      IN
      IF IsConstantField(field)
      THEN encode_fields(mnemonic, line, pointer, k + 1, token_idx, acc)
      ELSE IF token_idx >= Len(line) THEN failed(acc, "Missing token for field")
      ELSE
        LET token == line[token_idx + 1]
        IN
        IF IsPunctuationField(field)
        THEN IF token.type # field.expected_token
             THEN failed(acc, "Expected punctuation")
             ELSE encode_fields(mnemonic, line, pointer, k + 1, token_idx + 1, acc)
        ELSE IF field.expected_token = "REGISTER"
        THEN IF token.type # "REGISTER" THEN failed(acc, "Expected REGISTER")
             ELSE IF token.value \notin DOMAIN RegisterDigit
             THEN failed(acc, "Invalid register syntax")
             ELSE IF ~(0 <= RegisterDigit[token.value] /\ RegisterDigit[token.value] <= 7)
             THEN failed(acc, "Register index out of range")
             ELSE
               LET p == [piece |-> RegisterDigit[token.value],
                         shift |-> field.beginning]
               IN encode_fields(mnemonic, line, pointer, k + 1, token_idx + 1,
                                [acc EXCEPT !.word = or_pieces(@, << p >>),
                                            !.placed = Append(@, p)])
        ELSE IF IsImmediateField(field)
        THEN IF token.type # "IMMEDIATE" THEN failed(acc, "Expected IMMEDIATE")
             ELSE IF token.base \notin {"dec", "hex"}
             THEN failed(acc, "Invalid immediate")
             ELSE
               LET signed == field_signed(mnemonic)
                   parsed == normalize_immediate(IntAuto(token), field_width(field),
                                                 signed)
                   imm == IF token.was_label /\ mnemonic \in RelativeMnemonics
                          THEN TruncDiv2(parsed - pointer)
                          ELSE parsed
                   checked == [acc EXCEPT !.imms = Append(@, imm)]
               IN IF ~(min_value(field, signed) <= imm /\ imm <= max_value(field, signed))
                  THEN failed(checked, IF token.was_label THEN "Label out of range"
                                       ELSE "Immediate out of range")
                  ELSE
                    LET ps == immediate_pieces(field, imm)
                    IN encode_fields(mnemonic, line, pointer, k + 1, token_idx + 1,
                                     [checked EXCEPT !.word = or_pieces(@, ps),
                                                     !.placed = @ \o ps])
        ELSE failed(acc, "Unhandled field type")

\* encode_instruction up to its write_memory call
encode_instruction(line, pointer) ==
    LET mnemonic == Lower(line[1].value)
    IN IF mnemonic \notin Mnemonics
       THEN Encoding("Unknown instruction", 0, << >>, << >>)
       ELSE encode_fields(
              mnemonic, line, pointer, 1, 1,
              Encoding("", or_pieces(0, constant_pieces(INSTRUCTION_FORMAT[mnemonic])),
                       << >>, << >>))

write_memory_big_endian(mem, pointers, section, errs, value, size) ==
    LET address == pointers[section]
    IN [memory |-> [a \in address..(address + size - 1) |->
                      IF a = address THEN (value \div 256) % 256
                      ELSE value % 256] @@ mem,
        pointers |-> [pointers EXCEPT ![section] = @ + size],
        errors |-> errs, raised |-> FALSE]

\* write_memory: [memory, pointers, errors, raised]; `raised` is the IndexError
\* of a store past the end of the image
write_memory(mem, pointers, section, errs, value, size) ==
    LET address == pointers[section]
    IN IF 0 <= address /\ address < MEM_SIZE
       THEN IF size = 1
            THEN [memory |-> (address :> (value % 256)) @@ mem,
                  pointers |-> [pointers EXCEPT ![section] = @ + size],
                  errors |-> errs, raised |-> FALSE]
            ELSE IF address + size - 1 >= MEM_SIZE
            THEN [memory |-> (address :> (value % 256)) @@ mem,
                  pointers |-> pointers, errors |-> errs, raised |-> TRUE]
            ELSE [memory |-> [a \in address..(address + size - 1) |->
                                IF a = address THEN value % 256
                                ELSE (value \div 256) % 256] @@ mem,
                  pointers |-> [pointers EXCEPT ![section] = @ + size],
                  errors |-> errs, raised |-> FALSE]
       ELSE [memory |-> mem, pointers |-> pointers,
             errors |-> add_error(errs, "Memory address out of bounds", ""),
             raised |-> FALSE]

-----------------------------------------------------------------------------
(* second_pass_encoder.py: lionize, pseudo-instructions, directives *)

RECURSIVE lionize_from(_, _, _, _)
lionize_from(toks, i, current_line, acc) ==
    LET flushed == IF current_line # << >> THEN Append(acc, current_line) ELSE acc
    IN IF i > Len(toks) THEN flushed
       ELSE IF toks[i].type = "NEWLINE"
       THEN lionize_from(toks, i + 1, << >>, flushed)
       ELSE lionize_from(toks, i + 1, Append(current_line, toks[i]), acc)

\* lionize: the token list cut at its NEWLINE tokens, empty lines dropped
lionize(toks) == lionize_from(toks, 1, << >>, << >>)

\* self.lines.insert(i, line) with a 0-based i
Insert(seq, i, line) ==
    SubSeq(seq, 1, i) \o << line >> \o SubSeq(seq, i + 1, Len(seq))

\* ord() of the characters of the string texts of the model
CharCodes(text) ==
    CASE text = "Hi" -> << 72, 105 >>
      [] text = "A" -> << 65 >>
      [] OTHER -> << >>

\* the two-line expansions: self.lines[idx] = line; self.lines.insert(idx + 1, ...)
expand_two(all_lines, i, first, second) ==
    [lines |-> Insert([all_lines EXCEPT ![i + 1] = first], i + 1, second),
     raised |-> FALSE]

\* the one-line expansions: self.lines[idx] = line
expand_one(all_lines, i, first) ==
    [lines |-> [all_lines EXCEPT ![i + 1] = first], raised |-> FALSE]

\* an IndexError or ValueError leaves the method
expand_raises(all_lines) == [lines |-> all_lines, raised |-> TRUE]

\* resolve_pseudo_instructions(line, idx): the line list afterwards
resolve_pseudo_instructions(all_lines, i) ==
    LET line == all_lines[i + 1]
        instruction == Lower(line[1].value)
        reg == line[2].value
    IN
    IF instruction \in {"li16", "la"}
    THEN IF Len(line) < 4 \/ IntDecRaises(line[4]) THEN expand_raises(all_lines)
         ELSE LET value == line[4].num
              IN expand_two(all_lines, i,
                   << Identifier(IF instruction = "li16" THEN "lui" ELSE "auipc"),
                      Register(reg), Comma, Immediate(value \div 128) >>,
                   << Identifier(IF instruction = "li16" THEN "ori" ELSE "addi"),
                      Register(reg), Comma, Immediate(value % 128) >>)
    ELSE IF instruction = "ret"
    THEN expand_one(all_lines, i, << Identifier("jr"), Register("x1") >>)
    ELSE IF instruction = "nop"
    THEN expand_one(all_lines, i,
           << Identifier("add"), Register("x0"), Comma, Register("x0") >>)
    ELSE IF Len(line) < 2 THEN expand_raises(all_lines)
    ELSE IF instruction = "push"
    THEN expand_two(all_lines, i,
           << Identifier("addi"), Register("x2"), Comma, Immediate(-2) >>,
           << Identifier("sw"), Register(reg), Comma, Immediate(0), LParen,
              Register("x2"), RParen >>)
    ELSE IF instruction = "pop"
    THEN expand_two(all_lines, i,
           << Identifier("lw"), Register(reg), Comma, Immediate(0), LParen,
              Register("x2"), RParen >>,
           << Identifier("addi"), Register("x2"), Comma, Immediate(2) >>)
    ELSE IF instruction = "call"
    THEN expand_one(all_lines, i,
           << Identifier("jal"), Register("x1"), Comma,
              [Token("IMMEDIATE", line[2].value, line[2].base, line[2].num)
                 EXCEPT !.was_label = TRUE] >>)
    ELSE IF instruction = "inc"
    THEN expand_one(all_lines, i,
           << Identifier("addi"), Register(reg), Comma, Immediate(1) >>)
    ELSE IF instruction = "dec"
    THEN expand_one(all_lines, i,
           << Identifier("addi"), Register(reg), Comma, Immediate(-1) >>)
    ELSE IF instruction = "neg"
    THEN expand_two(all_lines, i,
           << Identifier("xori"), Register(reg), Comma, Immediate(-1) >>,
           << Identifier("addi"), Register(reg), Comma, Immediate(1) >>)
    ELSE IF instruction = "not"
    THEN expand_one(all_lines, i,
           << Identifier("xori"), Register(reg), Comma, Immediate(-1) >>)
    ELSE IF instruction = "clr"
    THEN expand_one(all_lines, i,
           << Identifier("xor"), Register(reg), Comma, Register(reg) >>)
    ELSE [lines |-> all_lines, raised |-> FALSE]

\* The mutable fields of the encoder, threaded through its methods.  `raised`
\* records an exception that left the method.
EncoderState ==
    [current_section |-> p2_section, section_pointers |-> p2_pointers,
     memory |-> memory, errors |-> errors, raised |-> FALSE]

\* the encoder's fields after write_memory returned w
stored(e, w) ==
    [e EXCEPT !.memory = w.memory, !.section_pointers = w.pointers,
              !.errors = w.errors, !.raised = w.raised]

\* self.write_memory(value, size) on the encoder's fields
write(e, value, size) ==
    IF e.raised THEN e
    ELSE stored(e, write_memory(e.memory, e.section_pointers, e.current_section,
                                e.errors, value, size))

\* for i in range(n): self.write_memory(value, size)
RECURSIVE write_times(_, _, _, _)
write_times(e, n, value, size) ==
    IF n <= 0 \/ e.raised THEN e
    ELSE write_times(write(e, value, size), n - 1, value, size)

\* for char in value: self.write_memory(ord(char), 1)
RECURSIVE write_codes(_, _)
write_codes(e, codes) ==
    IF codes = << >> \/ e.raised THEN e
    ELSE write_codes(write(e, Head(codes), 1), Tail(codes))

\* int(token.value, 0) raises ValueError on a text that is no number
IntAutoRaises(tok) == tok.base \notin {"dec", "hex"}

\* encode_directive, lines 310-314: the .byte loop
RECURSIVE encode_bytes(_, _)
encode_bytes(e, operands) ==
    IF operands = << >> \/ e.raised THEN e
    ELSE IF Head(operands).type = "COMMA" THEN encode_bytes(e, Tail(operands))
    ELSE IF IntAutoRaises(Head(operands)) THEN [e EXCEPT !.raised = TRUE]
    ELSE encode_bytes(write(e, IntAuto(Head(operands)), 1), Tail(operands))

\* encode_directive, lines 316-320: the .word loop; the encoder has no
\* attribute current_token, so the first operand that is not a comma ends the
\* method with an AttributeError
RECURSIVE encode_words(_, _)
encode_words(e, operands) ==
    IF operands = << >> \/ e.raised THEN e
    ELSE IF Head(operands).type = "COMMA" THEN encode_words(e, Tail(operands))
    ELSE [e EXCEPT !.raised = TRUE]

\* encode_directive, lines 287-307
encode_org(e, line) ==
    IF Len(line) < 2 \/ IntAutoRaises(line[2]) THEN [e EXCEPT !.raised = TRUE]
    ELSE LET value == IntAuto(line[2])
         IN IF value < 0 \/ value >= MEM_SIZE
            THEN [e EXCEPT !.errors = add_error(@, "ORG value out of bounds", "")]
            ELSE IF value < CODE_START
            THEN [e EXCEPT !.current_section = ".inter",
                           !.section_pointers[".inter"] = value]
            ELSE IF value < MMIO_BASE
            THEN [e EXCEPT !.current_section = ".text",
                           !.section_pointers[".text"] = value]
            ELSE [e EXCEPT !.errors = add_error(@, "ORG value cannot be in MMIO range", "")]

\* encode_directive, lines 330-336
encode_fill(e, line) ==
    IF Len(line) < 6 \/ IntAutoRaises(line[2]) \/ IntAutoRaises(line[4])
       \/ IntAutoRaises(line[6])
    THEN [e EXCEPT !.raised = TRUE]
    ELSE LET fill_items == IntAuto(line[2])
             fill_size == IntAuto(line[4])
             fill_value == IntAuto(line[6])
         IN IF fill_items <= 0 \/ fill_size <= 0 THEN e
            ELSE write_times(e, fill_items * fill_size, fill_value, fill_size)

\* encode_directive
encode_directive(e, line) ==
    LET directive == Lower(line[1].value)
    IN
    IF directive \in {".text", ".data", ".bss"}
    THEN [e EXCEPT !.current_section = directive]
    ELSE IF directive = ".org" THEN encode_org(e, line)
    ELSE IF directive = ".byte" THEN encode_bytes(e, Tail(line))
    ELSE IF directive = ".word" THEN encode_words(e, Tail(line))
    ELSE IF directive \in {".string", ".ascii"}
    THEN IF Len(line) < 2 THEN [e EXCEPT !.raised = TRUE]
         ELSE LET written == write_codes(e, CharCodes(line[2].value))
              IN IF directive = ".string" THEN write(written, 0, 1) ELSE written
    ELSE IF directive = ".space"
    THEN IF Len(line) < 2 \/ IntDecRaises(line[2]) THEN [e EXCEPT !.raised = TRUE]
         ELSE write_times(e, line[2].num, 0, 1)
    ELSE IF directive = ".fill" THEN encode_fill(e, line)
    ELSE e

encoded_and_written(e, expanded_lines, r) ==
    [e |-> IF r.error # ""
           THEN write([e EXCEPT !.errors = add_error(@, r.error, "")], r.word, 2)
           ELSE write(e, r.word, 2),
     lines |-> expanded_lines,
     enc |-> << r >>]

\* execute, lines 508-511: the result r of encode_instruction is reported
\* or written
encoded(e, expanded_lines, r) ==
    [e |-> IF r.error # ""
           THEN [e EXCEPT !.errors = add_error(@, r.error, "")]
           ELSE write(e, r.word, 2),
     lines |-> expanded_lines,
     enc |-> << r >>]

\* execute, lines 507-511, after resolve_pseudo_instructions returned
encode_expanded(e, all_lines, i, expanded) ==
    IF expanded.raised
    THEN [e |-> [e EXCEPT !.raised = TRUE], lines |-> all_lines, enc |-> << >>]
    ELSE encoded(e, expanded.lines,
                 encode_instruction(expanded.lines[i + 1],
                                    e.section_pointers[e.current_section]))

\* execute, lines 507-511: an instruction line, expanded when it is a pseudo
encode_instruction_line(e, all_lines, i) ==
    encode_expanded(e, all_lines, i,
                    IF Lower(all_lines[i + 1][1].value) \in Pseudos
                    THEN resolve_pseudo_instructions(all_lines, i)
                    ELSE [lines |-> all_lines, raised |-> FALSE])

-----------------------------------------------------------------------------
(* The token streams handed to the assembler *)

Equ(directive, name, value) ==
    << Directive(directive), Identifier(name), Comma, value >>

LineSet ==
    { Equ(".equ", "FOO", Immediate(1)),
      Equ(".equ", "FOO", Immediate(2)),
      Equ(".set", "BAR", Character(65)),
      Equ(".equ", "FOO", Immediate(1)) \o Equ(".equ", "BAR", Immediate(2)),
      << Directive(".equ"), Identifier("FOO") >>,
      << Label("start") >>,
      << Label("FOO") >>,
      << Identifier("add"), Register("x1"), Comma, Register("x2") >>,
      << Identifier("j"), Identifier("start") >>,
      << Identifier("addi"), Register("x1"), Comma, Identifier("FOO") >>,
      << Identifier("li16"), Register("x1"), Comma, Immediate(5) >>,
      << Directive(".data") >>,
      << Directive(".byte"), Immediate(1), Comma, Immediate(2) >>,
      << Directive(".org"), Immediate(16) >>,
      << Directive(".space"), HexImmediate(16) >> }

\* true instructions, the twelve pseudo-instructions and a label
PseudoLineSet ==
    { << Label("start") >>,
      << Identifier("add"), Register("x1"), Comma, Register("x2") >>,
      << Identifier("addi"), Register("x3"), Comma, Immediate(5) >>,
      << Identifier("li16"), Register("x4"), Comma, Immediate(4660) >>,
      << Identifier("li16"), Register("x4"), Comma, HexImmediate(4660) >>,
      << Identifier("la"), Register("x5"), Comma, Identifier("start") >>,
      << Identifier("push"), Register("x3") >>,
      << Identifier("pop"), Register("x3") >>,
      << Identifier("call"), Identifier("start") >>,
      << Identifier("ret") >>,
      << Identifier("inc"), Register("x6") >>,
      << Identifier("dec"), Register("x6") >>,
      << Identifier("neg"), Register("x7") >>,
      << Identifier("not"), Register("x7") >>,
      << Identifier("clr"), Register("x1") >>,
      << Identifier("nop") >> }

\* instruction lines encode_instruction rejects, and lines that begin with an
\* Identifier that is no mnemonic
BadLineSet ==
    { << Label("start") >>,
      << Identifier("add"), Register("x1"), Comma, Register("x2") >>,
      << Identifier("add"), Register("x1") >>,
      << Identifier("add"), Register("x1"), Register("x2") >>,
      << Identifier("add"), Register("x1"), Comma, Immediate(5) >>,
      << Identifier("add"), Register("x9"), Comma, Register("x1") >>,
      << Identifier("addi"), Register("x3"), Comma, Register("x1") >>,
      << Identifier("addi"), Register("x3"), Comma, Immediate(100) >>,
      << Identifier("li16"), Register("x4"), Comma, Immediate(40000) >>,
      << Identifier("foo"), Register("x1"), Comma, Register("x2") >>,
      << Identifier("start") >>,
      << Identifier("START"), Register("x1") >> }

\* section switches, the data directives and .org
DataLineSet ==
    { << Directive(".data") >>,
      << Directive(".bss") >>,
      << Directive(".byte"), Immediate(1), Comma, Immediate(300) >>,
      << Directive(".word"), Immediate(65536) >>,
      << Directive(".text") >>,
      << Label("buf") >>,
      << Identifier("add"), Register("x1"), Comma, Register("x2") >>,
      << Directive(".byte"), Immediate(1), Comma, Immediate(2), Comma,
         Immediate(3) >>,
      << Directive(".string"), String("Hi") >>,
      << Directive(".ascii"), String("Hi") >>,
      << Directive(".word"), HexImmediate(4660), Comma, Immediate(5) >>,
      << Directive(".fill"), Immediate(2), Comma, Immediate(2), Comma,
         Immediate(7) >>,
      << Directive(".fill"), Immediate(3), Comma, Immediate(1), Comma,
         Immediate(255) >>,
      << Directive(".space"), Immediate(4) >>,
      << Directive(".space"), Immediate(-4) >>,
      << Directive(".org"), Immediate(16) >>,
      << Directive(".org"), Immediate(30) >>,
      << Directive(".org"), Immediate(256) >>,
      << Directive(".org"), Immediate(15) >>,
      << Directive(".org"), Immediate(-2) >>,
      << Directive(".org"), HexImmediate(STACK_TOP - 2) >>,
      << Directive(".org"), HexImmediate(STACK_TOP) >> }

\* the streams of at most n lines of a line set, each line ended by a NEWLINE
RECURSIVE ProgramsFrom(_, _)
ProgramsFrom(lineset, n) ==
    IF n = 0 THEN { << >> }
    ELSE LET shorter == ProgramsFrom(lineset, n - 1)
         IN shorter \cup { l \o << Newline >> \o p : l \in lineset, p \in shorter }

ProgramsOf(n) == ProgramsFrom(LineSet, n)

\* every stream ends with an Eof token
Programs == { p \o << EOFToken >> : p \in ProgramsOf(MaxLines) }

PseudoPrograms == { p \o << EOFToken >> : p \in ProgramsFrom(PseudoLineSet, MaxLines) }

DataPrograms == { p \o << EOFToken >> : p \in ProgramsFrom(DataLineSet, MaxLines) }

BadPrograms == { p \o << EOFToken >> : p \in ProgramsFrom(BadLineSet, MaxLines) }

-----------------------------------------------------------------------------
(* The assembler: first pass, then the second pass *)

NoEncoding == [status |-> "none"]
NoRoundTrip == [status |-> "none"]
NoWrite == [status |-> "none"]

InitFrom(programs) ==
    /\ source \in programs
    /\ tokens = source
    /\ pos = 0
    /\ current_token = IF source # << >> THEN source[1] ELSE EOFToken
    /\ symbol_table = << >>
    /\ current_section = ".text"
    /\ section_pointers = [sec \in Sections |-> 0]
    /\ memory_layout = [sec \in Sections |->
                          IF sec = ".inter" THEN INT_VECTORS
                          ELSE IF sec = ".text" THEN CODE_START ELSE 0]
    /\ errors = << >>
    /\ pc = "constants"
    /\ p2_section = ".text"
    /\ p2_pointers = [sec \in Sections |-> 0]
    /\ lines = << >>
    /\ idx = 0
    /\ memory = << >>
    /\ enc = NoEncoding
    /\ rt = NoRoundTrip
    /\ write_args = NoWrite

Init == InitFrom(Programs)

InitPseudo == InitFrom(PseudoPrograms)

InitData == InitFrom(DataPrograms)

InitBad == InitFrom(BadPrograms)

SecondPassUnchanged ==
    UNCHANGED << p2_section, p2_pointers, lines, idx, memory, enc, rt,
    write_args >>

\* the parser's fields after a method returned state s
ParserBecomes(s) ==
    /\ tokens' = s.tokens
    /\ pos' = s.pos
    /\ current_token' = s.current_token
    /\ symbol_table' = s.symbol_table
    /\ errors' = s.errors
    /\ current_section' = s.current_section
    /\ section_pointers' = s.section_pointers

\* execute, lines 338-342
ConstantsSweep ==
    /\ pc = "constants"
    /\ current_token.type # "EOF"
    /\ ParserBecomes(constants_step(ParserState))
    /\ UNCHANGED << source, memory_layout, pc >>
    /\ SecondPassUnchanged

\* execute, line 344
ConstantsSweepEnd ==
    /\ pc = "constants"
    /\ current_token.type = "EOF"
    /\ ParserBecomes(reset(ParserState))
    /\ pc' = "layout"
    /\ UNCHANGED << source, memory_layout >>
    /\ SecondPassUnchanged

\* execute, lines 348-376
LayoutSweep ==
    /\ pc = "layout"
    /\ current_token.type # "EOF"
    /\ LET s == layout_step(ParserState)
       IN /\ ParserBecomes(s)
          /\ pc' = IF s.raised THEN "crashed" ELSE "layout"
    /\ UNCHANGED << source, memory_layout >>
    /\ SecondPassUnchanged

\* execute, lines 378-384
LayoutSweepEnd ==
    /\ pc = "layout"
    /\ current_token.type = "EOF"
    /\ memory_layout' = calculate_memory_layout(memory_layout, section_pointers)
    /\ pc' = "first_pass_done"
    /\ UNCHANGED << source, tokens, pos, current_token, symbol_table,
                    current_section, section_pointers, errors >>
    /\ SecondPassUnchanged

\* ZX16SecondPassEncoder.__init__
SecondPassInit ==
    /\ pc = "first_pass_done"
    /\ p2_section' = ".text"
    /\ p2_pointers' = initial_pointers(memory_layout)
    /\ lines' = << >>
    /\ idx' = 0
    /\ memory' = << >>
    /\ pc' = "second_pass"
    /\ UNCHANGED << source, tokens, pos, current_token, symbol_table,
                    current_section, section_pointers, memory_layout, errors,
                    enc, rt, write_args >>

\* ZX16SecondPassEncoder.execute, line 496
ResolveSymbols ==
    /\ pc = "second_pass"
    /\ LET r == resolve_symbols(tokens, errors, symbol_table, p2_pointers)
       IN /\ tokens' = r.tokens
          /\ errors' = r.errors
    /\ pc' = "resolved"
    /\ UNCHANGED << source, pos, current_token, symbol_table, current_section,
                    section_pointers, memory_layout, p2_section, p2_pointers,
                    lines, idx, memory, enc, rt, write_args >>

\* ZX16SecondPassEncoder.execute, line 497
Lionize ==
    /\ pc = "resolved"
    /\ lines' = lionize(tokens)
    /\ idx' = 0
    /\ pc' = "encoding"
    /\ UNCHANGED << source, tokens, pos, current_token, symbol_table,
                    current_section, section_pointers, memory_layout, errors,
                    p2_section, p2_pointers, memory, enc, rt, write_args >>

\* the encoder's fields after a method returned state e
EncoderBecomes(e) ==
    /\ p2_section' = e.current_section
    /\ p2_pointers' = e.section_pointers
    /\ memory' = e.memory
    /\ errors' = e.errors

\* the encoder after the turn of the loop that gave r
LineEncoded(r) ==
    /\ EncoderBecomes(r.e)
    /\ lines' = r.lines
    /\ enc' = IF r.enc = << >> THEN enc ELSE r.enc[1]
    /\ pc' = IF r.e.raised THEN "encoder_crashed" ELSE "encoding"

\* ZX16SecondPassEncoder.execute, lines 500-511: one turn of the loop
EncodeLine ==
    /\ pc = "encoding"
    /\ idx < Len(lines)
    /\ lines[idx + 1][1].type # "EOF"
    /\ LET line == lines[idx + 1]
       IN LineEncoded(
            IF line[1].type = "DIRECTIVE"
            THEN [e |-> encode_directive(EncoderState, line), lines |-> lines,
                  enc |-> << >>]
            ELSE IF line[1].type = "IDENTIFIER"
            THEN encode_instruction_line(EncoderState, lines, idx)
            ELSE [e |-> EncoderState, lines |-> lines, enc |-> << >>])
    /\ idx' = idx + 1
    /\ UNCHANGED << source, tokens, pos, current_token, symbol_table,
                    current_section, section_pointers, memory_layout, rt,
                    write_args >>

\* ZX16SecondPassEncoder.execute, lines 503-504 and 513
SecondPassEnd ==
    /\ pc = "encoding"
    /\ idx >= Len(lines) \/ lines[idx + 1][1].type = "EOF"
    /\ pc' = "done"
    /\ UNCHANGED << source, tokens, pos, current_token, symbol_table,
                    current_section, section_pointers, memory_layout, errors,
                    p2_section, p2_pointers, lines, idx, memory, enc, rt,
                    write_args >>

Next ==
    \/ ConstantsSweep
    \/ ConstantsSweepEnd
    \/ LayoutSweep
    \/ LayoutSweepEnd
    \/ SecondPassInit
    \/ ResolveSymbols
    \/ Lionize
    \/ EncodeLine
    \/ SecondPassEnd

Spec == Init /\ [][Next]_vars

\* the assembler on programs of pseudo-instructions
SpecPseudo == InitPseudo /\ [][Next]_vars

\* the assembler on programs of data directives
SpecData == InitData /\ [][Next]_vars

\* the same passes over programs with rejected lines
SpecBad == InitBad /\ [][Next]_vars

-----------------------------------------------------------------------------
(* Properties of the first pass and of symbol resolution *)

FirstPassReturned ==
    pc \in {"first_pass_done", "second_pass", "resolved", "encoding", "done",
            "encoder_crashed"}

\* C1: the memory layout the first pass returns has .inter at 0x0000, .text
\* at 0x0020, .data at 0x0020 plus the final .text pointer and .bss at
\* layout[.data] plus the final .data pointer.
C1_Layout ==
    FirstPassReturned =>
        /\ memory_layout[".inter"] = 0
        /\ memory_layout[".text"] = 32
        /\ memory_layout[".data"] = 32 + section_pointers[".text"]
        /\ memory_layout[".bss"] = memory_layout[".data"] + section_pointers[".data"]

C1_Witness ==
    /\ pc = "first_pass_done"
    /\ section_pointers[".text"] > 0
    /\ section_pointers[".data"] > 0
    /\ memory_layout[".bss"] > memory_layout[".data"]

\* a Label token that defines its name (the name has no symbol yet)
DefinesLabel ==
    /\ pc = "layout"
    /\ current_token.type = "LABEL"
    /\ current_token.value \notin DOMAIN symbol_table

\* token i of the stream names the label `name` as an operand
RefersTo(i, name) ==
    /\ is_symbol_reference(tokens[i])
    /\ tokens[i].value = name
    /\ name \in DOMAIN symbol_table
    /\ symbol_table[name].section # "const"

\* C2: a label's value is its section's pointer at the moment its Label token
\* is processed, it keeps that value, and symbol resolution rewrites every
\* Identifier that refers to it to the decimal text of value + layout[section].
C2_LabelAddress ==
    /\ [][DefinesLabel =>
            /\ current_token.value \in DOMAIN symbol_table'
            /\ symbol_table'[current_token.value].value
                 = section_pointers[current_section]
            /\ symbol_table'[current_token.value].section = current_section]_vars
    /\ [][\A n \in DOMAIN symbol_table :
            n \in DOMAIN symbol_table' /\ symbol_table'[n] = symbol_table[n]]_vars
    /\ [][pc = "second_pass" =>
            \A i \in 1..Len(tokens) : \A n \in DOMAIN symbol_table :
               RefersTo(i, n) =>
                 /\ tokens'[i].type = "IMMEDIATE"
                 /\ tokens'[i].base = "dec"
                 /\ tokens'[i].num = symbol_table[n].value
                                       + memory_layout[symbol_table[n].section]]_vars

C2_Witness ==
    /\ pc = "resolved"
    /\ \E i \in 1..Len(tokens) :
          /\ tokens[i].was_label
          /\ "start" \in DOMAIN symbol_table
          /\ symbol_table["start"].value = 2
          /\ symbol_table["start"].section = ".text"
          /\ tokens[i].num = 34

\* source[i..i+3] is a well-formed `.equ NAME, V` / `.set NAME, V`
WellFormedEqu(stream, i) ==
    /\ i + 3 <= Len(stream)
    /\ stream[i].type = "DIRECTIVE"
    /\ stream[i].value \in {".equ", ".set"}
    /\ stream[i + 1].type = "IDENTIFIER"
    /\ stream[i + 2].type = "COMMA"
    /\ stream[i + 3].type \in {"IMMEDIATE", "CHARACTER"}

\* no earlier well-formed directive of the stream defines the same name
FirstDefinition(stream, i) ==
    \A j \in 1..(i - 1) :
        WellFormedEqu(stream, j) => stream[j + 1].value # stream[i + 1].value

\* the four tokens of source[i..i+3] occur, in a row, in the stream
Remains(stream, i) ==
    \E j \in 1..Len(stream) :
        /\ j + 3 <= Len(stream)
        /\ stream[j].type = "DIRECTIVE"
        /\ stream[j].value = source[i].value
        /\ stream[j + 1] = source[i + 1]
        /\ stream[j + 2].type = "COMMA"
        /\ stream[j + 3] = source[i + 3]

\* C3: every well-formed .equ/.set of a name not yet defined leaves, after the
\* first pass, a const symbol with its value and none of its four tokens in
\* the stream handed to the second pass.
C3_EveryConstantDefined ==
    pc = "first_pass_done" =>
        \A i \in 1..Len(source) :
            (WellFormedEqu(source, i) /\ FirstDefinition(source, i)) =>
                /\ source[i + 1].value \in DOMAIN symbol_table
                /\ symbol_table[source[i + 1].value].section = "const"
                /\ symbol_table[source[i + 1].value].value = source[i + 3].num
                /\ ~Remains(tokens, i)

\* the number of "already defined" diagnostics
RECURSIVE AlreadyDefinedCount(_)
AlreadyDefinedCount(errs) ==
    IF errs = << >> THEN 0
    ELSE (IF Head(errs).msg = "Symbol already defined" THEN 1 ELSE 0)
         + AlreadyDefinedCount(Tail(errs))

\* the step about to be taken defines a name that already has a symbol
Redefinition ==
    \/ /\ pc = "layout"
       /\ current_token.type = "LABEL"
       /\ current_token.value \in DOMAIN symbol_table
    \/ /\ pc = "constants"
       /\ pos + 1 <= Len(tokens)
       /\ current_token = tokens[pos + 1]
       /\ WellFormedEqu(tokens, pos + 1)
       /\ tokens[pos + 2].value \in DOMAIN symbol_table

FooTwice ==
    Equ(".equ", "FOO", Immediate(1)) \o << Newline >>
    \o Equ(".equ", "FOO", Immediate(2)) \o << Newline, EOFToken >>

\* C4: defining an already defined name adds exactly one "already defined"
\* error and leaves the symbol table unchanged; a symbol keeps the value and
\* section of its first definition; `.equ FOO, 1` then `.equ FOO, 2` ends with
\* exactly that one error, FOO = 1 and has_errors() true.
C4_Redefinition ==
    /\ [][Redefinition =>
            /\ symbol_table' = symbol_table
            /\ AlreadyDefinedCount(errors') = AlreadyDefinedCount(errors) + 1]_vars
    /\ [][\A n \in DOMAIN symbol_table :
            n \in DOMAIN symbol_table' /\ symbol_table'[n] = symbol_table[n]]_vars
    /\ [](( pc = "first_pass_done" /\ source = FooTwice) =>
            /\ errors = << [msg |-> "Symbol already defined", arg |-> "FOO"] >>
            /\ symbol_table["FOO"].value = 1
            /\ symbol_table["FOO"].section = "const"
            /\ has_errors(errors))

C4_Witness ==
    /\ pc = "first_pass_done"
    /\ source = FooTwice
    /\ AlreadyDefinedCount(errors) = 1

-----------------------------------------------------------------------------
(* encode_instruction on one instruction line *)

\* literal immediates: the ends of the 4-, 7- and 9-bit ranges and beyond
LiteralValues == {-65, -64, -8, -1, 0, 1, 5, 7, 8, 63, 64, 511, 512, 1000}

\* every value of a signed 7-bit immediate
SevenBitValues == (-64)..63

\* absolute addresses a label operand resolves to
LabelAddresses == {32, 35, 36, 48, 258, 288}

\* values of the section pointer when the line is encoded
EncodePointers == {CODE_START, 256}

Registers == {"x0", "x1", "x2", "x3", "x4", "x5", "x6", "x7"}

LabelImmediate(n) == [Immediate(n) EXCEPT !.was_label = TRUE]

\* the tokens that can stand at an operand field
OperandTokens(field) ==
    IF IsPunctuationField(field) THEN {Token(field.expected_token, "", "", 0)}
    ELSE IF field.expected_token = "REGISTER" THEN {Register(r) : r \in Registers}
    ELSE {Immediate(n) : n \in LiteralValues
                             \cup (IF field_width(field) = 7 THEN SevenBitValues
                                   ELSE {})}
         \cup {LabelImmediate(n) : n \in LabelAddresses}

RECURSIVE OperandLines(_)
OperandLines(specs) ==
    IF specs = << >> THEN {<< >>}
    ELSE IF IsConstantField(Head(specs)) THEN OperandLines(Tail(specs))
    ELSE {<< t >> \o rest : t \in OperandTokens(Head(specs)),
                            rest \in OperandLines(Tail(specs))}

\* every mnemonic with every choice of operands
InstructionLines ==
    UNION {{<< Identifier(m) >> \o ops : ops \in OperandLines(INSTRUCTION_FORMAT[m])}
           : m \in Mnemonics}

\* the first pass has nothing to do
FirstPassIdle ==
    /\ source = << >>
    /\ tokens = << >>
    /\ pos = 0
    /\ current_token = EOFToken
    /\ symbol_table = << >>
    /\ current_section = ".text"
    /\ section_pointers = [sec \in Sections |-> 0]
    /\ memory_layout = [sec \in Sections |->
                          IF sec = ".inter" THEN INT_VECTORS
                          ELSE IF sec = ".text" THEN CODE_START ELSE 0]

InitEnc ==
    /\ FirstPassIdle
    /\ errors = << >>
    /\ pc = "encode"
    /\ p2_section = ".text"
    /\ \E p \in EncodePointers :
         p2_pointers = [initial_pointers(memory_layout) EXCEPT ![".text"] = p]
    /\ \E line \in InstructionLines : lines = << line >>
    /\ idx = 0
    /\ memory = << >>
    /\ enc = NoEncoding
    /\ rt = NoRoundTrip
    /\ write_args = NoWrite

\* encode_instruction, lines 338-493
EncodeInstruction ==
    /\ pc = "encode"
    /\ LET r == encode_instruction(lines[1], p2_pointers[p2_section])
           w == write_memory(memory, p2_pointers, p2_section, errors, r.word, 2)
       IN /\ enc' = r
          /\ IF r.error # ""
             THEN /\ errors' = add_error(errors, r.error, "")
                  /\ UNCHANGED << memory, p2_pointers >>
                  /\ pc' = "encoded"
             ELSE /\ errors' = w.errors
                  /\ memory' = w.memory
                  /\ p2_pointers' = w.pointers
                  /\ pc' = IF w.raised THEN "crashed" ELSE "encoded"
    /\ UNCHANGED << source, tokens, pos, current_token, symbol_table,
                    current_section, section_pointers, memory_layout,
                    p2_section, lines, idx, rt, write_args >>

NextEnc == EncodeInstruction

SpecEnc == InitEnc /\ [][NextEnc]_vars

\* the line being encoded, its mnemonic and its table row
encoded_line == lines[1]
encoded_mnemonic == Lower(encoded_line[1].value)
encoded_row == INSTRUCTION_FORMAT[encoded_mnemonic]

has_immediate(specs) == \E k \in 1..Len(specs) : IsImmediateField(specs[k])
immediate_field(specs) ==
    specs[CHOOSE k \in 1..Len(specs) : IsImmediateField(specs[k])]
immediate_token(line) ==
    line[CHOOSE i \in 1..Len(line) : line[i].type = "IMMEDIATE"]

\* the word-bit ranges a row's fields claim: one per constant, register and
\* contiguous immediate field, one per allocation of a split immediate
word_ranges(specs) ==
    {<< k, 0, specs[k].beginning, specs[k].end >> :
        k \in {i \in 1..Len(specs) : /\ ~IsPunctuationField(specs[i])
                                     /\ specs[i].allocations = << >>}}
    \cup UNION {{<< k, a, specs[k].allocations[a].m_beginning,
                          specs[k].allocations[a].m_end >> :
                    a \in 1..Len(specs[k].allocations)} : k \in 1..Len(specs)}

\* the immediate-bit ranges the allocations of a split field draw from
logical_ranges(field) ==
    {<< a, field.allocations[a].i_beginning, field.allocations[a].i_end >> :
        a \in 1..Len(field.allocations)}

RECURSIVE popcount(_)
popcount(n) == IF n = 0 THEN 0 ELSE (n % 2) + popcount(n \div 2)

RECURSIVE pieces_popcount(_)
pieces_popcount(pieces) ==
    IF pieces = << >> THEN 0
    ELSE popcount(Head(pieces).piece) + pieces_popcount(Tail(pieces))

\* C5: for every mnemonic of the table the word-bit ranges of its fields
\* cover each of the bits 0..15 exactly once.
C5_FieldsCoverWord ==
    pc = "encoded" =>
        \A b \in 0..15 :
            Cardinality({c \in word_ranges(encoded_row) :
                            c[3] <= b /\ b <= c[4]}) = 1

\* C6: for every legal choice of operands the number of one-bits of the
\* encoded word is the number of one-bits of the constant fields plus the
\* number of one-bits of the operand pieces placed.
C6_PopcountAdds ==
    (/\ pc = "encoded"
     /\ enc.error = ""
     /\ has_immediate(encoded_row) =>
          /\ ~immediate_token(encoded_line).was_label
          /\ min_value(immediate_field(encoded_row), field_signed(encoded_mnemonic))
               <= IntAuto(immediate_token(encoded_line))
          /\ IntAuto(immediate_token(encoded_line))
               <= max_value(immediate_field(encoded_row), field_signed(encoded_mnemonic)))
    => popcount(enc.word) = pieces_popcount(constant_pieces(encoded_row))
                            + pieces_popcount(enc.placed)

\* C7: the logical ranges of every split immediate (j, jal, lui, auipc) are
\* pairwise disjoint and together are exactly the bits 0..width-1 of the
\* immediate.
C7_SplitRangesPartition ==
    (/\ pc = "encoded"
     /\ has_immediate(encoded_row)
     /\ immediate_field(encoded_row).allocations # << >>)
    => LET field == immediate_field(encoded_row)
           ranges == logical_ranges(field)
       IN /\ \A r1, r2 \in ranges :
                r1[1] # r2[1] => (r1[3] < r2[2] \/ r2[3] < r1[2])
          /\ UNION {r[2]..r[3] : r \in ranges} = 0..(field_width(field) - 1)

\* C8: when a branch or jump is encoded with an operand resolved from a label
\* at address A while the section pointer is P, the immediate that is range
\* checked and placed is (A - P) / 2.
C8_BranchOffset ==
    [][(/\ pc = "encode"
        /\ encoded_mnemonic \in RelativeMnemonics
        /\ has_immediate(encoded_row)
        /\ immediate_token(encoded_line).was_label)
       => LET A == IntAuto(immediate_token(encoded_line))
              P == p2_pointers[p2_section]
          IN enc'.imms \in {<< (A - P) \div 2 >>, << TruncDiv2(A - P) >>}]_vars

\* the value of an immediate operand that the encoder is to place: the
\* PC-relative offset of a label on a branch or jump, else the token's value
operand_value(token, mnemonic, pointer) ==
    IF token.was_label /\ mnemonic \in RelativeMnemonics
    THEN TruncDiv2(IntAuto(token) - pointer)
    ELSE IntAuto(token)

out_of_range(line, mnemonic, pointer) ==
    /\ has_immediate(INSTRUCTION_FORMAT[mnemonic])
    /\ LET field == immediate_field(INSTRUCTION_FORMAT[mnemonic])
           v == operand_value(immediate_token(line), mnemonic, pointer)
       IN ~(min_value(field, field_signed(mnemonic)) <= v
            /\ v <= max_value(field, field_signed(mnemonic)))

\* C9: an immediate operand outside [min_value, max_value] of its field is
\* answered with an out-of-range error and no instruction word is written.
C9_OutOfRangeRejected ==
    [][(/\ pc = "encode"
        /\ out_of_range(encoded_line, encoded_mnemonic, p2_pointers[p2_section]))
       => /\ Len(errors') = Len(errors) + 1
          /\ errors'[Len(errors')].msg \in {"Immediate out of range",
                                            "Label out of range"}
          /\ memory' = memory
          /\ p2_pointers' = p2_pointers]_vars

-----------------------------------------------------------------------------
(* The width normalisation of encode_instruction on its own *)

\* the widest immediate converted
MaxWidth == 16

\* the signed and the unsigned range of a width together
RoundTripValues(w) == (-Pow2(w - 1))..(Pow2(w) - 1)

InitRT ==
    /\ FirstPassIdle
    /\ errors = << >>
    /\ pc = "normalize"
    /\ p2_section = ".text"
    /\ p2_pointers = initial_pointers(memory_layout)
    /\ lines = << >>
    /\ idx = 0
    /\ memory = << >>
    /\ enc = NoEncoding
    /\ \E w \in 1..MaxWidth : \E x \in RoundTripValues(w) : \E signed \in BOOLEAN :
         rt = [status |-> "ready", width |-> w, value |-> x, signed |-> signed,
               bits |-> << >>, result |-> 0]
    /\ write_args = NoWrite

\* encode_instruction, lines 421-424
NormalizeImmediate ==
    /\ pc = "normalize"
    /\ rt' = [rt EXCEPT !.status = "done",
                        !.bits = decimal_to_binary(rt.value, rt.width),
                        !.result = normalize_immediate(rt.value, rt.width, rt.signed)]
    /\ pc' = "normalized"
    /\ UNCHANGED << source, tokens, pos, current_token, symbol_table,
                    current_section, section_pointers, memory_layout, errors,
                    p2_section, p2_pointers, lines, idx, memory, enc, write_args >>

NextRT == NormalizeImmediate

SpecRT == InitRT /\ [][NextRT]_vars

\* C10: for every width w in 1..16 the w-bit two's-complement encoding of x
\* decodes back to x: as signed for x in [-2^(w-1), 2^(w-1)-1], as unsigned
\* for x in [0, 2^w-1].
C10_RoundTrip ==
    (/\ pc = "normalized"
     /\ IF rt.signed
        THEN -Pow2(rt.width - 1) <= rt.value /\ rt.value <= Pow2(rt.width - 1) - 1
        ELSE 0 <= rt.value /\ rt.value <= Pow2(rt.width) - 1)
    => /\ Len(rt.bits) = rt.width
       /\ rt.result = rt.value

C10_Witness ==
    /\ pc = "normalized"
    /\ rt.signed
    /\ rt.width = 16
    /\ rt.value = -32768
    /\ rt.bits[1] = 1
    /\ rt.result = -32768

-----------------------------------------------------------------------------
(* Properties of the second pass *)

\* self.memory[a] of the zero-initialised image
byte_at(mem, a) == IF a \in DOMAIN mem THEN mem[a] ELSE 0

\* the loop of execute is at a line of this first token type and text
AtLine(type, text) ==
    /\ pc = "encoding"
    /\ idx < Len(lines)
    /\ lines[idx + 1][1].type = type
    /\ Lower(lines[idx + 1][1].value) = text

AddX1X2 == << Identifier("add"), Register("x1"), Comma, Register("x2") >>

\* C11: encoding `add x1, x2` produces the word 0x4080, written little-endian
\* at the write cursor.
C11_AddWord ==
    [][(AtLine("IDENTIFIER", "add") /\ lines[idx + 1] = AddX1X2)
       => LET P == p2_pointers[p2_section]
          IN /\ enc'.word = 16512
             /\ byte_at(memory', P) = 128
             /\ byte_at(memory', P + 1) = 64]_vars

\* C11 (amended): encoding `add x1, x2` produces the word 0x0440 (rd = 1 in
\* bits 6-8, rs2 = 2 in bits 9-11, every other field zero), written
\* little-endian at the write cursor, which advances by 2.
C11_AddWordAmended ==
    [][(AtLine("IDENTIFIER", "add") /\ lines[idx + 1] = AddX1X2)
       => LET P == p2_pointers[p2_section]
          IN /\ enc'.error = ""
             /\ enc'.word = 1088
             /\ byte_at(memory', P) = 64
             /\ byte_at(memory', P + 1) = 4
             /\ p2_pointers' = [p2_pointers EXCEPT ![p2_section] = P + 2]]_vars

C11_Witness ==
    /\ pc = "done"
    /\ lines[1] = AddX1X2
    /\ enc.word = 1088
    /\ byte_at(memory, CODE_START) = 64
    /\ byte_at(memory, CODE_START + 1) = 4
    /\ p2_pointers[".text"] = CODE_START + 2

\* C12: for every register rd in x0..x7 and every immediate imm in [-64, 63],
\* `addi rd, imm` encodes to 0b001 | (rd << 6) | ((imm mod 128) << 9).
C12_AddiWord ==
    (/\ pc = "encoded"
     /\ encoded_mnemonic = "addi"
     /\ -64 <= IntAuto(immediate_token(encoded_line))
     /\ IntAuto(immediate_token(encoded_line)) <= 63)
    => /\ enc.error = ""
       /\ enc.word = 1 + RegisterDigit[encoded_line[2].value] * 64
                       + (IntAuto(immediate_token(encoded_line)) % 128) * 512

C12_Witness ==
    /\ pc = "encoded"
    /\ encoded_mnemonic = "addi"
    /\ encoded_line[2] = Register("x3")
    /\ immediate_token(encoded_line) = Immediate(5)
    /\ enc.word = 2753


\* a well-formed `li16 rd, V` with V in [0, 0xFFFF] written in decimal or hex
Li16Line(line) ==
    /\ Len(line) = 4
    /\ line[1].type = "IDENTIFIER" /\ Lower(line[1].value) = "li16"
    /\ line[2].type = "REGISTER"
    /\ line[3].type = "COMMA"
    /\ line[4].type = "IMMEDIATE"
    /\ line[4].base \in {"dec", "hex"}
    /\ 0 <= line[4].num /\ line[4].num <= 65535

\* C13: for every register rd and every V in [0, 0xFFFF] written in any
\* supported base, the turn of the loop at `li16 rd, V` replaces the line by
\* `lui rd, V >> 7` followed by `ori rd, V & 0x7F`, raises nothing, adds no
\* diagnostic and emits the first of the two words.
C13_Li16Expands ==
    [][(pc = "encoding" /\ idx < Len(lines) /\ Li16Line(lines[idx + 1]))
       => LET line == lines[idx + 1]
              V == line[4].num
          IN /\ pc' = "encoding"
             /\ Len(lines') = Len(lines) + 1
             /\ lines'[idx + 1] = << Identifier("lui"), line[2], Comma,
                                     Immediate(V \div 128) >>
             /\ lines'[idx + 2] = << Identifier("ori"), line[2], Comma,
                                     Immediate(V % 128) >>
             /\ errors' = errors
             /\ p2_pointers'[p2_section] = p2_pointers[p2_section] + 2]_vars


\* the source lines the tokenizer delivered, their label definitions left out
\* (resolve_symbols drops the LABEL tokens before the lines are cut)
NotLabel(token) == token.type # "LABEL"

source_lines == lionize(SelectSeq(source, NotLabel))

\* the operands of every `la` and `call` of the source name a defined label
PseudoOperandsDefined ==
    \A i \in 1..Len(source_lines) :
        LET line == source_lines[i]
        IN (line[1].type = "IDENTIFIER" /\ Lower(line[1].value) \in {"la", "call"})
           => line[Len(line)].value \in DOMAIN symbol_table

\* the source lines whose pseudo-instruction expands to two words
TwoWordPseudoLines ==
    { i \in 1..Len(source_lines) :
        /\ source_lines[i][1].type = "IDENTIFIER"
        /\ Lower(source_lines[i][1].value) \in Pseudos
        /\ PSEUDO_INSTRUCTIONS[Lower(source_lines[i][1].value)] = 4 }

\* C14: for a program of pseudo-instructions with well-formed operands the
\* second pass runs to its end, the bytes it emits into .text equal the size
\* the first pass reserved, and the line list holds every source line once
\* plus one inserted line per two-word pseudo-instruction.
C14_PseudoBytes ==
    (pc \in {"done", "encoder_crashed"} /\ PseudoOperandsDefined)
    => /\ pc = "done"
       /\ p2_pointers[".text"] - memory_layout[".text"] = section_pointers[".text"]
       /\ Len(lines) = Len(source_lines) + Cardinality(TwoWordPseudoLines)


-----------------------------------------------------------------------------
(* write_memory on its own: one call at a chosen write cursor *)

\* the cursors a section pointer can hold when write_memory is called: inside
\* the image, at its last two bytes, and one past its end
WriteCursors == {0, CODE_START, MEM_SIZE - 2, MEM_SIZE - 1, MEM_SIZE}

WriteValues == {0, 255, 4660}

WriteSizes == {1, 2}

InitWrite ==
    /\ FirstPassIdle
    /\ errors = << >>
    /\ pc = "write"
    /\ p2_section \in Sections
    /\ \E a \in WriteCursors :
         p2_pointers = [initial_pointers(memory_layout) EXCEPT ![p2_section] = a]
    /\ lines = << >>
    /\ idx = 0
    /\ memory = << >>
    /\ enc = NoEncoding
    /\ rt = NoRoundTrip
    /\ \E value \in WriteValues : \E size \in WriteSizes :
         write_args = [status |-> "ready", value |-> value, size |-> size,
                       address |-> p2_pointers[p2_section]]

\* write_memory, lines 264-278
WriteMemory ==
    /\ pc = "write"
    /\ LET w == write_memory(memory, p2_pointers, p2_section, errors,
                             write_args.value, write_args.size)
       IN /\ memory' = w.memory
          /\ p2_pointers' = w.pointers
          /\ errors' = w.errors
          /\ pc' = IF w.raised THEN "crashed" ELSE "written"
    /\ write_args' = [write_args EXCEPT !.status = "done"]
    /\ UNCHANGED << source, tokens, pos, current_token, symbol_table,
                    current_section, section_pointers, memory_layout,
                    p2_section, lines, idx, enc, rt >>

NextWrite == WriteMemory

SpecWrite == InitWrite /\ [][NextWrite]_vars

\* C15: a write of s bytes at cursor a whose targets all lie in [0, 65535]
\* stores the value little-endian and advances only the current section's
\* cursor by s; any other write (a = 0xFFFF with s = 2 included) adds one
\* out-of-bounds error, does not fail otherwise, and leaves memory and the
\* cursor unchanged.
C15_WriteMemory ==
    pc \in {"written", "crashed"}
    => LET a == write_args.address
           s == write_args.size
           v == write_args.value
           before == [initial_pointers(memory_layout) EXCEPT ![p2_section] = a]
       IN IF 0 <= a /\ a + s - 1 <= MEM_SIZE - 1
          THEN /\ pc = "written"
               /\ byte_at(memory, a) = v % 256
               /\ s = 2 => byte_at(memory, a + 1) = (v \div 256) % 256
               /\ p2_pointers = [before EXCEPT ![p2_section] = a + s]
               /\ errors = << >>
          ELSE /\ pc = "written"
               /\ Len(errors) = 1
               /\ \A b \in DOMAIN memory : memory[b] = 0
               /\ p2_pointers = before


\* a well-formed `.fill count, size, value` with size 1 or 2 and
\* count * size <= 65536
FillLine(line) ==
    /\ Len(line) = 6
    /\ line[1].type = "DIRECTIVE" /\ Lower(line[1].value) = ".fill"
    /\ \A k \in {2, 4, 6} : line[k].type = "IMMEDIATE" /\ line[k].base \in {"dec", "hex"}
    /\ line[3].type = "COMMA" /\ line[5].type = "COMMA"
    /\ line[2].num >= 0
    /\ line[4].num \in {1, 2}
    /\ line[2].num * line[4].num <= 65536

\* count * size summed over the lines from the i-th on, the closing EOF line
\* left out
RECURSIVE fill_bytes(_, _)
fill_bytes(all_lines, i) ==
    IF i >= Len(all_lines) THEN 0
    ELSE all_lines[i][2].num * all_lines[i][4].num + fill_bytes(all_lines, i + 1)

\* the program is `.data` followed by well-formed .fill directives only
FillProgram ==
    /\ Len(source_lines) >= 3
    /\ source_lines[1] = << Directive(".data") >>
    /\ \A i \in 2..(Len(source_lines) - 1) : FillLine(source_lines[i])

\* C16: for `.fill count, size, value` lines in the data section the first
\* pass advances the location counter by count * size each, and the second
\* pass writes exactly count * size bytes each and advances the cursor by as
\* much.
C16_FillBytes ==
    (pc \in {"done", "encoder_crashed"} /\ FillProgram)
    => /\ pc = "done"
       /\ section_pointers[".data"] = fill_bytes(source_lines, 2)
       /\ p2_pointers[".data"] - memory_layout[".data"] = fill_bytes(source_lines, 2)


\* the operands of a data directive: the tokens after it that are no commas
NotComma(token) == token.type # "COMMA"

operands_of(line) == SelectSeq(Tail(line), NotComma)

\* a `.word v1, ..., vk` with every vi a number in [0, 65535]
WordLine(line) ==
    /\ Len(line) >= 2
    /\ line[1].type = "DIRECTIVE" /\ Lower(line[1].value) = ".word"
    /\ \A k \in 1..Len(operands_of(line)) :
         /\ operands_of(line)[k].type = "IMMEDIATE"
         /\ operands_of(line)[k].base \in {"dec", "hex"}
         /\ 0 <= operands_of(line)[k].num /\ operands_of(line)[k].num <= 65535

\* C17: the turn of the loop at `.word v1, ..., vk` writes, for each i, the
\* bytes (vi & 0xFF, vi >> 8) at consecutive addresses from the write cursor,
\* each slot holding its own operand, and advances the cursor by 2k.
C17_WordBytes ==
    [][(pc = "encoding" /\ idx < Len(lines) /\ WordLine(lines[idx + 1]))
       => LET values == operands_of(lines[idx + 1])
              P == p2_pointers[p2_section]
          IN /\ pc' = "encoding"
             /\ \A k \in 1..Len(values) :
                  /\ byte_at(memory', P + 2 * (k - 1)) = values[k].num % 256
                  /\ byte_at(memory', P + 2 * (k - 1) + 1) = values[k].num \div 256
             /\ p2_pointers' = [p2_pointers EXCEPT ![p2_section] = P + 2 * Len(values)]
             /\ errors' = errors]_vars


\* a `.byte v1, ..., vk` with every vi a number in [0, 255]
ByteLine(line) ==
    /\ Len(line) >= 2
    /\ line[1].type = "DIRECTIVE" /\ Lower(line[1].value) = ".byte"
    /\ \A k \in 1..Len(operands_of(line)) :
         /\ operands_of(line)[k].type = "IMMEDIATE"
         /\ operands_of(line)[k].base \in {"dec", "hex"}
         /\ 0 <= operands_of(line)[k].num /\ operands_of(line)[k].num <= 255

\* a `.string "s"` or `.ascii "s"`
StringLine(line) ==
    /\ Len(line) = 2
    /\ line[1].type = "DIRECTIVE" /\ Lower(line[1].value) \in {".string", ".ascii"}
    /\ line[2].type = "STRING"

\* the bytes the claim expects of one such line
RECURSIVE operand_values(_)
operand_values(operands) ==
    IF operands = << >> THEN << >>
    ELSE << Head(operands).num >> \o operand_values(Tail(operands))

expected_bytes(line) ==
    IF ByteLine(line) THEN operand_values(operands_of(line))
    ELSE IF Lower(line[1].value) = ".string"
    THEN Append(CharCodes(line[2].value), 0)
    ELSE CharCodes(line[2].value)

\* the expected bytes of the lines from the i-th on, the closing EOF line left out
RECURSIVE expected_image(_, _)
expected_image(all_lines, i) ==
    IF i >= Len(all_lines) THEN << >>
    ELSE expected_bytes(all_lines[i]) \o expected_image(all_lines, i + 1)

\* the program is `.data` followed by .byte, .string and .ascii lines only
BytesAndStrings ==
    /\ source_lines = lionize(source)
    /\ Len(source_lines) >= 3
    /\ source_lines[1] = << Directive(".data") >>
    /\ \A i \in 2..(Len(source_lines) - 1) :
         ByteLine(source_lines[i]) \/ StringLine(source_lines[i])

\* C18: in the .data section `.byte v1, ..., vk` and `.string "s"` lines emit,
\* at consecutive addresses from layout[.data], the k bytes, then the
\* characters of s, then exactly one 0x00 (`.ascii` the same without the
\* 0x00); the second pass runs to its end without a diagnostic, and the size
\* the first pass gave .data equals the number of bytes written.
C18_BytesThenString ==
    (pc \in {"done", "encoder_crashed"} /\ BytesAndStrings)
    => LET image == expected_image(source_lines, 2)
           base == memory_layout[".data"]
       IN /\ pc = "done"
          /\ errors = << >>
          /\ \A k \in 1..Len(image) : byte_at(memory, base + k - 1) = image[k]
          /\ p2_pointers[".data"] = base + Len(image)
          /\ section_pointers[".data"] = Len(image)

\* `.data`, `.byte 1, 2, 3`, `.string "Hi"` gives 01 02 03 48 69 00
C18_Witness ==
    /\ pc = "done"
    /\ Len(source_lines) = 4
    /\ source_lines[1] = << Directive(".data") >>
    /\ source_lines[2] = << Directive(".byte"), Immediate(1), Comma, Immediate(2),
                            Comma, Immediate(3) >>
    /\ source_lines[3] = << Directive(".string"), String("Hi") >>
    /\ \A k \in 1..6 : byte_at(memory, memory_layout[".data"] + k - 1)
                         = << 1, 2, 3, 72, 105, 0 >>[k]
    /\ section_pointers[".data"] = 6
    /\ p2_pointers[".data"] = memory_layout[".data"] + 6


\* the first-pass step at hand is an `.org` directive that is accepted
AcceptedOrgStep ==
    /\ pc = "layout"
    /\ current_token.type = "DIRECTIVE"
    /\ Lower(current_token.value) = ".org"
    /\ errors' = errors

\* C19: during the first pass no step other than an accepted `.org` lowers a
\* section's location counter.
C19_CountersNeverDecrease ==
    [][(~FirstPassReturned /\ ~AcceptedOrgStep)
       => \A sec \in Sections : section_pointers'[sec] >= section_pointers[sec]]_vars


\* the first pass is at an `.org` directive followed by a number
AtOrg ==
    /\ pc = "layout"
    /\ current_token.type = "DIRECTIVE"
    /\ Lower(current_token.value) = ".org"
    /\ peek(ParserState, 1).type = "IMMEDIATE"
    /\ peek(ParserState, 1).base \in {"dec", "hex"}

\* C20: `.org N` is accepted only in .text or .inter with N even and
\* 0 <= N < STACK_TOP; accepted with N < 0x0020 it makes .inter the current
\* section with pointer N, otherwise .text with pointer N - 0x0020; rejected,
\* it adds an error and leaves the current section and all section pointers
\* unchanged.
C20_Org ==
    [][AtOrg
       => LET N == peek(ParserState, 1).num
          IN IF /\ current_section \in {".text", ".inter"}
                /\ N % 2 = 0
                /\ 0 <= N /\ N < STACK_TOP
             THEN /\ errors' = errors
                  /\ IF N < CODE_START
                     THEN /\ current_section' = ".inter"
                          /\ section_pointers' =
                               [section_pointers EXCEPT ![".inter"] = N]
                     ELSE /\ current_section' = ".text"
                          /\ section_pointers' =
                               [section_pointers EXCEPT ![".text"] = N - CODE_START]
             ELSE /\ Len(errors') > Len(errors)
                  /\ current_section' = current_section
                  /\ section_pointers' = section_pointers]_vars

\* `.org 16` was accepted in .text and `.org 15` rejected after it
C20_Witness ==
    /\ pc = "first_pass_done"
    /\ Len(source_lines) = 3
    /\ source_lines[1] = << Directive(".org"), Immediate(16) >>
    /\ source_lines[2] = << Directive(".org"), Immediate(15) >>
    /\ current_section = ".inter"
    /\ section_pointers[".inter"] = 16
    /\ section_pointers[".text"] = 0
    /\ Len(errors) > 0


\* the second pass has encoded every line, an instruction last
InstructionEncodedLast ==
    /\ Len(lines) >= 2
    /\ lines[Len(lines) - 1][1].type = "IDENTIFIER"

\* C21: in an assembly that completes without errors the .inter section
\* stays within 0x0000-0x001F: an instruction written last while the current
\* section is .inter ends at or below 0x0020, and every label defined in
\* .inter resolves to an address below 0x0020.
C21_InterBelowCode ==
    (pc = "done" /\ errors = << >>)
    => /\ (p2_section = ".inter" /\ InstructionEncodedLast)
          => p2_pointers[".inter"] <= CODE_START
       /\ \A name \in DOMAIN symbol_table :
            symbol_table[name].section = ".inter"
            => symbol_table[name].value + memory_layout[".inter"] < CODE_START


\* the token stream holds no symbol reference that is not defined
UndefinedReferences(toks) ==
    { i \in 1..Len(toks) :
        is_symbol_reference(toks[i]) /\ toks[i].value \notin DOMAIN symbol_table }

\* the Immediate the claim expects in place of a symbol reference
ExpectedImmediate(token) ==
    IF token.value \notin DOMAIN symbol_table
    THEN [Immediate(0) EXCEPT !.was_label = token.was_label]
    ELSE IF symbol_table[token.value].section = "const"
    THEN [Immediate(symbol_table[token.value].value)
            EXCEPT !.was_label = token.was_label]
    ELSE [Immediate(symbol_table[token.value].value
                    + memory_layout[symbol_table[token.value].section])
            EXCEPT !.was_label = TRUE]

\* C22: symbol resolution rewrites every Identifier that is no mnemonic into
\* an Immediate: value + layout[section] with was_label set for a symbol of a
\* code or data section, the value alone for a constant, 0 and one "Undefined
\* symbol" error for an unknown name; every other token is left alone, no
\* Identifier but mnemonics remains, and was_label is set only on tokens
\* resolved from symbols that are not constants.
C22_ResolveSymbols ==
    [][pc = "second_pass"
       => /\ Len(tokens') = Len(tokens)
          /\ \A i \in 1..Len(tokens) :
               /\ tokens'[i] = IF is_symbol_reference(tokens[i])
                               THEN ExpectedImmediate(tokens[i])
                               ELSE tokens[i]
               /\ tokens'[i].type = "IDENTIFIER"
                    => Lower(tokens'[i].value) \in Mnemonics \cup Pseudos
               /\ tokens'[i].was_label
                    => /\ is_symbol_reference(tokens[i])
                       /\ tokens[i].value \in DOMAIN symbol_table
                       /\ symbol_table[tokens[i].value].section # "const"
          /\ Len(errors') = Len(errors) + Cardinality(UndefinedReferences(tokens))]_vars

\* `start:` / `j start` / `addi x1, FOO`: the label reference became the
\* address 0x0020 with was_label set, the unknown FOO became 0 with one error
C22_Witness ==
    /\ pc = "resolved"
    /\ Len(tokens) = 10
    /\ tokens[3] = [Immediate(CODE_START) EXCEPT !.was_label = TRUE]
    /\ tokens[8] = Immediate(0)
    /\ Len(errors) = 1
    /\ "start" \in DOMAIN symbol_table
    /\ "FOO" \notin DOMAIN symbol_table


\* the turn of the loop at hand calls encode_instruction, which reports an error
EncodeReportsError ==
    /\ pc = "encoding"
    /\ idx < Len(lines)
    /\ lines[idx + 1][1].type = "IDENTIFIER"
    /\ LET r == encode_instruction_line(EncoderState, lines, idx)
       IN r.enc # << >> /\ r.enc[1].error # ""

RECURSIVE line_from(_, _)
line_from(toks, i) ==
    IF i > Len(toks) \/ toks[i].type \in {"NEWLINE", "EOF"} THEN << >>
    ELSE << toks[i] >> \o line_from(toks, i + 1)

\* the line the first pass is at
current_line == line_from(tokens, pos + 1)

\* the layout sweep is at a data directive
AtDataDirective ==
    /\ pc = "layout"
    /\ current_token.type = "DIRECTIVE"
    /\ Lower(current_token.value)
         \in {".byte", ".word", ".string", ".ascii", ".space", ".fill"}

\* some operand of the line is a number outside [0, max]
ValueOutside(line, max) ==
    \E k \in 1..Len(operands_of(line)) :
        /\ operands_of(line)[k].type = "IMMEDIATE"
        /\ operands_of(line)[k].num < 0 \/ operands_of(line)[k].num > max

\* C24: in the first pass a data directive met in .text or .inter adds an
\* error and changes no section pointer; in .data or .bss `.byte` with k
\* values in [0, 255] advances the current section pointer by exactly k and
\* `.word` with k values in [0, 65535] by exactly 2k, and a value outside
\* those ranges adds an error.
C24_DataDirectives ==
    [][AtDataDirective
       => LET directive == Lower(current_token.value)
              k == Len(operands_of(current_line))
          IN IF current_section \in {".text", ".inter"}
             THEN /\ Len(errors') > Len(errors)
                  /\ section_pointers' = section_pointers
             ELSE /\ ByteLine(current_line)
                     => /\ section_pointers' =
                             [section_pointers EXCEPT ![current_section] = @ + k]
                        /\ errors' = errors
                  /\ WordLine(current_line)
                     => /\ section_pointers' =
                             [section_pointers EXCEPT ![current_section] = @ + 2 * k]
                        /\ errors' = errors
                  /\ (directive = ".byte" /\ ValueOutside(current_line, 255))
                     => Len(errors') > Len(errors)
                  /\ (directive = ".word" /\ ValueOutside(current_line, 65535))
                     => Len(errors') > Len(errors)]_vars

\* `.bss` / `.word 0x1234, 5` / `.byte 1, 300`: the .bss pointer is 4 after
\* the words and 5 after the byte 1, and the 300 was rejected
C24_Witness ==
    /\ pc = "first_pass_done"
    /\ Len(source_lines) = 4
    /\ source_lines[1] = << Directive(".bss") >>
    /\ source_lines[2] = << Directive(".word"), HexImmediate(4660), Comma,
                            Immediate(5) >>
    /\ source_lines[3] = << Directive(".byte"), Immediate(1), Comma,
                            Immediate(300) >>
    /\ section_pointers[".bss"] = 5
    /\ section_pointers[".data"] = 0
    /\ Len(errors) >= 1


\* some source line begins with an Identifier that is no mnemonic
NonMnemonicLines ==
    { i \in 1..Len(source_lines) :
        /\ source_lines[i][1].type = "IDENTIFIER"
        /\ Lower(source_lines[i][1].value) \notin Mnemonics \cup Pseudos }

\* C25: a source line whose first token is an Identifier that is neither a
\* true nor a pseudo mnemonic has caused at least one error by the end of
\* the second pass, whether or not the identifier names a defined symbol.
C25_NonMnemonicReported ==
    (pc \in {"done", "encoder_crashed"} /\ NonMnemonicLines # {})
    => Len(errors) >= 1




\* C26: when both passes have processed the program without adding an
\* error, the second pass ends in the section the first pass ended in, and
\* each write cursor equals the section's base plus the first pass's final
\* section pointer.
C26_PassAgreement ==
    (pc = "done" /\ errors = << >>)
    => /\ p2_section = current_section
       /\ \A section \in Sections :
            p2_pointers[section]
                = memory_layout[section] + section_pointers[section]


\* the encoded line with another literal as its immediate operand
with_immediate(line, n) ==
    [i \in 1..Len(line) |->
        IF line[i].type = "IMMEDIATE" THEN Immediate(n) ELSE line[i]]

\* the literals the immediate field of a mnemonic accepts
accepted_immediates(mnemonic) ==
    min_value(immediate_field(INSTRUCTION_FORMAT[mnemonic]), field_signed(mnemonic))
    .. max_value(immediate_field(INSTRUCTION_FORMAT[mnemonic]), field_signed(mnemonic))

\* an instruction was encoded without error from a literal immediate of the
\* accepted range
AcceptedImmediateEncoded ==
    /\ pc = "encoded"
    /\ enc.error = ""
    /\ has_immediate(encoded_row)
    /\ ~immediate_token(encoded_line).was_label
    /\ IntAuto(immediate_token(encoded_line)) \in accepted_immediates(encoded_mnemonic)

\* C27: with every other operand equal, any other immediate of the accepted
\* range encodes to a different word, for contiguous and for split
\* immediate fields.
C27_ImmediateInjective ==
    AcceptedImmediateEncoded
    => \A n \in accepted_immediates(encoded_mnemonic) :
         n # IntAuto(immediate_token(encoded_line))
         => encode_instruction(with_immediate(encoded_line, n),
                               p2_pointers[p2_section]).word # enc.word


\* the constant fields of a row that cover word bit b
constant_fields_at(specs, b) ==
    {k \in 1..Len(specs) : /\ IsConstantField(specs[k])
                           /\ specs[k].beginning <= b
                           /\ b <= specs[k].end}

\* the value a row's constant field gives word bit b
constant_bit(specs, b) ==
    LET field == specs[CHOOSE k \in constant_fields_at(specs, b) : TRUE]
    IN BitSlice(BinToInt(field.const_value), b - field.beginning, 1)

\* the word bits where both rows have a constant field and the constants
\* differ
distinguishing_bits(specs1, specs2) ==
    {b \in 0..15 : /\ constant_fields_at(specs1, b) # {}
                   /\ constant_fields_at(specs2, b) # {}
                   /\ constant_bit(specs1, b) # constant_bit(specs2, b)}

\* C28: an encoded word differs from every word of any other mnemonic: for
\* each other mnemonic there is a bit covered by a constant field in both
\* rows with different constants, and the encoded word carries its own
\* row's constant at that bit whatever the operands are.
C28_MnemonicsDistinct ==
    (pc = "encoded" /\ enc.error = "")
    => \A other \in Mnemonics \ {encoded_mnemonic} :
         \E b \in distinguishing_bits(encoded_row, INSTRUCTION_FORMAT[other]) :
            BitSlice(enc.word, b, 1) = constant_bit(encoded_row, b)

\* `lui x1, 0` was encoded as 0x0046: bit 15, the flag that tells lui from
\* auipc, is 0
C28_Witness ==
    /\ pc = "encoded"
    /\ enc.error = ""
    /\ encoded_mnemonic = "lui"
    /\ encoded_line[2] = Register("x1")
    /\ immediate_token(encoded_line) = Immediate(0)
    /\ enc.word = 70
    /\ distinguishing_bits(encoded_row, INSTRUCTION_FORMAT["auipc"]) = {15}


-----------------------------------------------------------------------------
(* The first pass on its own, run to completion *)

\* well-formed and malformed lines for every branch of the two sweeps:
\* constants, labels, instructions, data directives with and without their
\* operands, an unknown directive and a stray token
TermLineSet ==
    { Equ(".equ", "FOO", Immediate(1)),
      << Directive(".equ") >>,
      << Directive(".equ"), Identifier("FOO") >>,
      << Directive(".equ"), Identifier("FOO"), Comma >>,
      << Label("start") >>,
      << Label("start"), Identifier("add"), Register("x1"), Comma,
         Register("x2") >>,
      << Identifier("add"), Register("x1"), Comma, Character(65) >>,
      << Directive(".data") >>,
      << Directive(".byte") >>,
      << Directive(".byte"), Immediate(1), Comma >>,
      << Directive(".word"), Immediate(1), Immediate(2) >>,
      << Directive(".string") >>,
      << Directive(".space") >>,
      << Directive(".space"), Immediate(4) >>,
      << Directive(".space"), HexImmediate(16) >>,
      << Directive(".fill"), Immediate(2) >>,
      << Directive(".fill"), Immediate(2), Comma, Immediate(3), Comma,
         Immediate(7) >>,
      << Directive(".org") >>,
      << Directive(".bogus") >>,
      << Register("x1") >> }

TermPrograms == { p \o << EOFToken >> : p \in ProgramsFrom(TermLineSet, MaxLines) }

\* every stream ends with an Eof token or is empty
InitTerm == InitFrom(TermPrograms \cup {<< >>})

\* ZX16FirstPassParser.execute: the two sweeps and the return
NextFirstPass ==
    \/ ConstantsSweep
    \/ ConstantsSweepEnd
    \/ LayoutSweep
    \/ LayoutSweepEnd

SpecFirstPass == InitTerm /\ [][NextFirstPass]_vars

\* the sweeps still to finish: both, the layout sweep only, none
sweeps_left ==
    CASE pc = "constants" -> 2
      [] pc = "layout" -> 1
      [] OTHER -> 0

\* a natural number that bounds the loop iterations still to come: the
\* tokens from the cursor to Eof, and a whole stream for each sweep left
steps_left == sweeps_left * (Len(source) + 2) + (Len(tokens) - pos)

\* C29: on every token stream that ends with an Eof token, the empty one
\* included, the first pass terminates by returning a result: every step of
\* either sweep, the deleting and the early-return paths included, strictly
\* decreases the bound on the steps left, and no step ends the pass by an
\* exception instead of a result.
C29_FirstPassTerminates ==
    [][(pc \in {"constants", "layout"})
       => /\ steps_left' < steps_left
          /\ steps_left' >= 0
          /\ pc' \in {"constants", "layout", "first_pass_done"}]_vars

\* source[i] is one of the four tokens of a well-formed .equ/.set directive,
\* or a Label
Removable(i) ==
    \/ source[i].type = "LABEL"
    \/ \E j \in (i - 3)..i : j >= 1 /\ WellFormedEqu(source, j)

\* the source tokens the first pass has to keep, in their order
RECURSIVE kept_from(_)
kept_from(i) ==
    IF i > Len(source) THEN << >>
    ELSE (IF Removable(i) THEN << >> ELSE << source[i] >>) \o kept_from(i + 1)

\* a token of the result is a source token with its text, and with its kind
\* unless a Character became an Immediate
SameToken(after, before) ==
    \/ after = before
    \/ /\ before.type = "CHARACTER"
       /\ after = [before EXCEPT !.type = "IMMEDIATE"]

\* the tokens of `after` are, in order, tokens of `before`
RECURSIVE Embeds(_, _)
Embeds(after, before) ==
    IF after = << >> THEN TRUE
    ELSE IF before = << >> THEN FALSE
    ELSE IF SameToken(Head(after), Head(before))
         THEN Embeds(Tail(after), Tail(before))
         ELSE Embeds(after, Tail(before))

\* the tokens of `before` are all, in order, among those of `after`
RECURSIVE Keeps(_, _)
Keeps(after, before) ==
    IF before = << >> THEN TRUE
    ELSE IF after = << >> THEN FALSE
    ELSE IF SameToken(Head(after), Head(before))
         THEN Keeps(Tail(after), Tail(before))
         ELSE Keeps(Tail(after), before)

\* C30: the stream the first pass returns is the source stream without
\* tokens of well-formed .equ/.set directives and Labels only: every other
\* token, each Newline included, is still there, in the original order and
\* with its text, its kind changed at most from Character to Immediate.
C30_OnlyConstantsAndLabelsRemoved ==
    pc = "first_pass_done"
    => /\ Embeds(tokens, source)
       /\ Keeps(tokens, kept_from(1))


=============================================================================
